---- MODULE Spec2Model ----
(***************************************************************************)
(* CapiCar server: the HTTP handlers (tasks, staff, issues, audit-log sync) *)
(* and the AirtableService methods they call, over the three store tables  *)
(* Tasks, Staff and Audit_Log.                                             *)
(*                                                                         *)
(* A request is a sequence of steps, one per store call (every `await` on  *)
(* base(...)): the code between two store calls runs without interruption  *)
(* and is a pure operator on the request's local state.  Every store call  *)
(* either succeeds or fails (network, rate limit); a find/update of a      *)
(* record that does not exist fails.                                       *)
(*                                                                         *)
(* Timestamps (updated_at, started_at, ...) are written by the code but    *)
(* never read back by it; they are left out of the task record.            *)
(***************************************************************************)
EXTENDS Integers, Sequences, FiniteSets, TLC

\* JS null / undefined / an absent field
Null == "null"

\* JS truthiness of an optional string
Truthy(v) == v # Null /\ v # ""

----------------------------------------------------------------------------
\* Bounds of the model

\* number of HTTP requests in one behaviour
MaxRequests == 1

\* request slots; Spec handles one request at a time in slot 1
Slots == {1}

\* the task ids a request can name: "t1" has a record in Tasks, "t0" has none
ExistingTaskIds == {"t1"}
RequestTaskIds == {Null, "t0", "t1"}

\* operator_id of a request: absent, a staff member, a staff_id with no record
OperatorIds == {Null, "S1", "S9"}

\* the longest logs array of a POST /api/audit-logs/sync body
MaxLogs == 2

\* :id of the staff routes: "S1" is the staff_id of a record, "S9" of none
StaffIds == {"S1", "S9"}

\* name and staff_id of a POST /api/staff or PUT /api/staff/:id body
StaffNames == {Null, "Bob"}
NewStaffIds == {Null, "S2"}

\* action of a POST /api/staff/checkin body
CheckinActions == {Null, "CHECK_IN", "CHECK_OUT", "BOGUS_ACTION"}

\* the errors express.json() passes to the error middleware: a body that is
\* not JSON, a body over the size limit
BodyParserErrors ==
    {[name |-> "SyntaxError", message |-> "Unexpected token } in JSON at position 1"],
     [name |-> "PayloadTooLargeError", message |-> "request entity too large"]}

\* issue_type, description and task_status of a POST /api/issues/report body
IssueTypes == {Null, "damaged_item"}
Descriptions == {Null, "box torn"}
ReportedStatuses == {Null, "Picking"}

\* the entries of a logs array: a complete one, one by the placeholder staff
\* 'unknown', one without timestamp, one whose action type is no TaskAction
SyncEntry1 ==
    [timestamp |-> "2025-01-01T10:00:00Z", action_type |-> "START_PICKING",
     staff_id |-> "S1", task_id |-> "t1", old_value |-> "Pending",
     new_value |-> "Picking"]

SyncEntries ==
    {SyncEntry1,
     [SyncEntry1 EXCEPT !.staff_id = "unknown", !.action_type = "TASK_PAUSED",
                        !.old_value = Null, !.new_value = Null],
     [SyncEntry1 EXCEPT !.timestamp = Null],
     [SyncEntry1 EXCEPT !.staff_id = "unknown", !.action_type = "constructor",
                        !.old_value = Null, !.new_value = Null]}

\* the logs arrays of the model
SyncBodies == UNION {[1..n -> SyncEntries] : n \in 0..MaxLogs}

\* Date.now().toString().slice(-4) when a staff_id is generated
Timestamps4 == {"0042"}

\* checklist_json of a PUT /api/tasks/:id/checklist body: absent, or a checklist
ChecklistBodies == {Null, "[1]"}

----------------------------------------------------------------------------
\* src/src/types/index.ts

TaskStatus ==
    {"Pending", "Picking", "Packed", "Inspecting", "Correction_Needed",
     "Correcting", "Completed", "Cancelled"}

TaskAction ==
    {"START_PICKING", "START_PACKING", "START_INSPECTION", "COMPLETE_INSPECTION",
     "ENTER_CORRECTION", "START_CORRECTION", "RESOLVE_CORRECTION", "LABEL_CREATED",
     "REPORT_EXCEPTION", "PAUSE_TASK", "RESUME_TASK", "CANCEL_TASK"}

\* the action field of a request: absent, a TaskAction, or some other string
RequestActions == TaskAction \cup {Null, "BOGUS_ACTION"}

\* the payload of a request; only the fields the handler reads
NoPayload ==
    [weight |-> Null, dimensions |-> Null, errorType |-> Null, reason |-> Null]

PayloadsFor(action) ==
    CASE action = "START_PACKING" ->
           {[NoPayload EXCEPT !.weight = w, !.dimensions = d] :
               w \in {Null, "2kg"}, d \in {Null, "10x10x10"}}
      [] action = "ENTER_CORRECTION" ->
           {[NoPayload EXCEPT !.errorType = e] : e \in {Null, "wrong_item"}}
      [] action = "REPORT_EXCEPTION" ->
           {[NoPayload EXCEPT !.reason = x] : x \in {Null, "damaged_item"}}
      [] OTHER -> {NoPayload}

----------------------------------------------------------------------------
\* State

VARIABLES
    tasks,    \* Tasks table: task id -> fields
    staff,    \* Staff table: sequence of records (store order)
    audit,    \* Audit_Log table: sequence of records, in creation order
    req,      \* per slot: the request in flight (locals of the handler)
    nreq,     \* requests begun so far
    nodeEnv,  \* process.env.NODE_ENV
    writes    \* the updates the store has applied to Tasks, in the order it applied them

vars == <<tasks, staff, audit, req, nreq, nodeEnv, writes>>

\* a mapped task that is null (getTaskById / updateTaskStatus returned null)
NoTask ==
    [id |-> Null, status |-> Null, currentOperator |-> Null, isPaused |-> FALSE,
     inExceptionPool |-> FALSE, exceptionReason |-> Null]

NoLog ==
    [operatorId |-> Null, actionType |-> Null, oldValue |-> Null,
     newValue |-> Null, ret |-> Null]

NoFields == [f \in {} |-> Null]

NoResp == [status |-> 0, success |-> FALSE]

\* the buckets of the dashboard
Buckets ==
    {"pending", "picking", "packed", "inspecting", "completed", "paused", "cancelled"}

\* the data of a dashboard response, before there is one
NoDashboard ==
    [tasks |-> [b \in Buckets |-> <<>>], stats |-> [b \in Buckets \cup {"total"} |-> 0]]

\* the body fields read by the handlers other than POST /api/tasks/action
NoBody ==
    [checklist_json |-> Null, name |-> Null, staff_id |-> Null, issue_type |-> Null,
     description |-> Null, task_status |-> Null, isArray |-> FALSE, logs |-> <<>>]

IdleReq ==
    [pc |-> "idle",
     kind |-> Null,            \* the route of the request
     task_id |-> Null, action |-> Null, operator_id |-> Null,
     payload |-> NoPayload,
     staffId |-> Null,         \* req.params.id of the staff routes, staffId of checkin
     body |-> NoBody,
     idx |-> 0,                \* audit sync: position in logs of the entry in progress
     syncedCount |-> 0,        \* audit sync: syncedCount
     errors |-> <<>>,          \* audit sync: positions of the entries pushed to errors
     message |-> Null,         \* the message field of an error response
     dashboard |-> NoDashboard, \* the data of a dashboard response
     data |-> <<>>,            \* the staff members of the response's data
     routeOld |-> Null,        \* old...Status read by the route before the service call
     log |-> NoLog,            \* arguments of the logAction call in progress
     staffRecordId |-> Null,   \* logAction's staffRecordId
     upd |-> NoFields,         \* fields of the pending base(TASKS_TABLE).update
     updatedTask |-> NoTask,   \* the route's updatedTask
     resp |-> NoResp,          \* the HTTP response
     sent |-> 0,               \* the number of responses sent
     calls |-> <<>>,           \* store writes attempted by this request, in order
     logged |-> <<>>,          \* the audit records this request has created, each with
                               \* the operatorId logAction was called with
     storeFail |-> FALSE,      \* some store call of this request failed transiently
     pre |-> [tasks |-> <<>>, audit |-> <<>>, staff |-> <<>>]]   \* the tables when the request arrived

----------------------------------------------------------------------------
\* Store and mapper

\* base(STAFF_TABLE).select({filterByFormula: {staff_id} = id}).all()
StaffRecords(staffId) ==
    SelectSeq(staff, LAMBDA s : s.staff_id = staffId)

\* faulty variant of MapStaffRecord: the id is the store's record id
MapStaffRecord_RecordId(rec) ==
    [id |-> rec.id, name |-> rec.name]

\* a Staff record as a StaffMember: {id: record.get('staff_id'), name: record.get('name')}
MapStaffRecord(rec) ==
    [id |-> rec.staff_id, name |-> rec.name]

\* a Staff record that is null
NoStaffRecord == [id |-> Null, staff_id |-> Null, name |-> Null]

\* a StaffMember that is null
NoStaff == [id |-> Null, name |-> Null]

\* getStaffById: the first matching record; null when there is none or the
\* select fails
GetStaffById(staffId, ok) ==
    IF ok /\ Len(StaffRecords(staffId)) > 0
    THEN MapStaffRecord(StaffRecords(staffId)[1])
    ELSE NoStaff

\* faulty variant of GetOperatorFromStaffId: an operator without a Staff record
\* is returned as a staff member of that id
GetOperatorFromStaffId_Unchecked(staffId, ok) ==
    IF ok /\ Len(StaffRecords(staffId)) > 0
    THEN MapStaffRecord(StaffRecords(staffId)[1]).id
    ELSE staffId

\* getOperatorFromStaffId: the id of the StaffMember of the first matching
\* record, or undefined; a failing look-up is swallowed
GetOperatorFromStaffId(staffId, ok) ==
    IF ok /\ Len(StaffRecords(staffId)) > 0
    THEN MapStaffRecord(StaffRecords(staffId)[1]).id
    ELSE Null

\* name.toUpperCase().replace(/\s+/g, '_') of the names of the model
UpperName(name) ==
    CASE name = "Bob" -> "BOB"
      [] name = "Ann" -> "ANN"
      [] OTHER -> name

\* createStaff: the staff_id given, or one generated from the name
NewStaffId(name, staffId, ts) ==
    IF Truthy(staffId) THEN staffId ELSE "STAFF_" \o UpperName(name) \o "_" \o ts

\* the record id the store gives to the record created by the n-th request
NewRecordId(n) == "rec" \o ToString(n)

\* mapTaskRecord: store row -> FulfillmentTask
MapTaskRecord(id, rec, opOk) ==
    [id |-> id,
     status |-> IF Truthy(rec.status) THEN rec.status ELSE "Pending",
     currentOperator |->
        IF Truthy(rec.current_operator)
        THEN GetOperatorFromStaffId(rec.current_operator, opOk)
        ELSE Null,
     isPaused |-> rec.is_paused,
     inExceptionPool |-> rec.in_exception_pool,
     exceptionReason |-> IF Truthy(rec.exception_reason) THEN rec.exception_reason ELSE Null]

\* getTaskById: null when the find fails or the record does not exist
GetTaskById(taskId, ok, opOk) ==
    IF ok /\ taskId \in DOMAIN tasks
    THEN MapTaskRecord(taskId, tasks[taskId], opOk)
    ELSE NoTask

\* faulty variant of StoreUpdate: a paused record is locked, an update of it
\* is accepted and dropped
StoreUpdate_PausedIsLocked(rec, fields) ==
    IF rec.is_paused
    THEN rec
    ELSE [f \in DOMAIN rec |-> IF f \in DOMAIN fields THEN fields[f] ELSE rec[f]]

\* base(TASKS_TABLE).update(id, fields): the fields given replace the stored ones,
\* every other field of the record is kept
StoreUpdate(rec, fields) ==
    [f \in DOMAIN rec |-> IF f \in DOMAIN fields THEN fields[f] ELSE rec[f]]

\* faulty variant of AuditCreate: a record of the same task is overwritten
AuditCreate_Upsert(log, fields) ==
    IF \E i \in DOMAIN log : log[i].task_id = fields.task_id
    THEN LET i == CHOOSE i \in DOMAIN log : log[i].task_id = fields.task_id
         IN  [log EXCEPT ![i] = fields]
    ELSE Append(log, fields)

\* base(AUDIT_LOG_TABLE).create(fields): a new record after the existing ones
AuditCreate(log, fields) ==
    Append(log, fields)

\* the order in which a select of the Tasks table returns the records
TaskOrder == <<"t1", "t2", "t3">>

\* getAllTasksOptimized: every record of Tasks, mapped, in the order of the view
GetAllTasks(opOk) ==
    LET ids == SelectSeq(TaskOrder, LAMBDA id : id \in DOMAIN tasks)
    IN  [i \in 1..Len(ids) |-> MapTaskRecord(ids[i], tasks[ids[i]], opOk[ids[i]])]

\* getTasksGroupedByStatusOptimized: grouped
GroupByStatus(all) ==
    [pending |-> SelectSeq(all, LAMBDA t : t.status = "Pending" /\ ~t.isPaused),
     picking |-> SelectSeq(all, LAMBDA t : t.status = "Picking" /\ ~t.isPaused),
     packed |-> SelectSeq(all, LAMBDA t : t.status = "Packed" /\ ~t.isPaused),
     inspecting |-> SelectSeq(all, LAMBDA t : t.status = "Inspecting" /\ ~t.isPaused),
     correctionNeeded |->
        SelectSeq(all, LAMBDA t : t.status = "Correction_Needed" /\ ~t.isPaused),
     correcting |-> SelectSeq(all, LAMBDA t : t.status = "Correcting" /\ ~t.isPaused),
     completed |-> SelectSeq(all, LAMBDA t : t.status = "Completed"),
     paused |-> SelectSeq(all, LAMBDA t : t.isPaused = TRUE),
     cancelled |-> SelectSeq(all, LAMBDA t : t.status = "Cancelled")]

\* faulty variant of SimplifiedGroups: the correction groups are not merged
SimplifiedGroups_NoMerge(grouped) ==
    [pending |-> grouped.pending,
     picking |-> grouped.picking,
     packed |-> grouped.packed,
     inspecting |-> grouped.inspecting,
     completed |-> grouped.completed,
     paused |-> grouped.paused,
     cancelled |-> grouped.cancelled]

\* router.get('/') of the dashboard: simplifiedGroupedTasks
SimplifiedGroups(grouped) ==
    [pending |-> grouped.pending,
     picking |-> grouped.picking,
     packed |-> grouped.packed,
     inspecting |-> grouped.inspecting \o grouped.correctionNeeded \o grouped.correcting,
     completed |-> grouped.completed,
     paused |-> grouped.paused,
     cancelled |-> grouped.cancelled]

\* router.get('/') of the dashboard: stats
DashboardStats(groups) ==
    [b \in Buckets \cup {"total"} |->
        IF b = "total"
        THEN Len(groups.pending) + Len(groups.picking) + Len(groups.packed)
             + Len(groups.inspecting) + Len(groups.completed) + Len(groups.paused)
             + Len(groups.cancelled)
        ELSE Len(groups[b])]

----------------------------------------------------------------------------
\* Audit vocabulary (AirtableService.getActionTypeForStatus, mapActionType)

GetActionTypeForStatus(status) ==
    CASE status = "Picking" -> "START_PICKING"
      [] status = "Packed" -> "START_PACKING"
      [] status = "Inspecting" -> "START_INSPECTION"
      [] status = "Completed" -> "COMPLETE_INSPECTION"
      [] status = "Cancelled" -> "CANCEL_TASK"
      [] status = "Correction_Needed" -> "ENTER_CORRECTION"
      [] status = "Correcting" -> "START_CORRECTION"
      [] OTHER -> "FIELD_UPDATED"

\* the keys every JS object literal inherits from Object.prototype
InheritedKeys ==
    {"constructor", "toString", "valueOf", "hasOwnProperty", "isPrototypeOf",
     "propertyIsEnumerable", "toLocaleString", "__proto__"}

\* actionMappings[key] for an inherited key: a function (or the prototype
\* object), which is truthy and is no label
InheritedMember == "[object inherited from Object.prototype]"

\* mapActionType: actionMappings[actionType] || 'Other_Actions', the look-up
\* going through the prototype chain of the object literal
MapActionType(actionType) ==
    CASE actionType = "START_PICKING" -> "Task_Started"
      [] actionType = "START_PACKING" -> "Packing_Started"
      [] actionType = "START_INSPECTION" -> "Inspection_Started"
      [] actionType = "COMPLETE_INSPECTION" -> "Task_Completed"
      [] actionType = "ENTER_CORRECTION" -> "Inspection_Failed"
      [] actionType = "START_CORRECTION" -> "Correction_Started"
      [] actionType = "RESOLVE_CORRECTION" -> "Correction_Completed"
      [] actionType = "LABEL_CREATED" -> "Other_Actions"
      [] actionType = "REPORT_EXCEPTION" -> "Exception_Logged"
      [] actionType = "PAUSE_TASK" -> "Task_Paused"
      [] actionType = "RESUME_TASK" -> "Task_Resumed"
      [] actionType = "CANCEL_TASK" -> "Task_Auto_Cancelled"
      [] actionType = "INSPECTION_PASSED" -> "Task_Completed"
      [] actionType = "INSPECTION_FAILED" -> "Inspection_Failed"
      [] actionType = "TASK_PAUSED" -> "Task_Paused"
      [] actionType = "CORRECTION_STARTED" -> "Correction_Started"
      [] actionType = "TASK_COMPLETED" -> "Task_Completed"
      [] actionType \in InheritedKeys -> InheritedMember
      [] OTHER -> "Other_Actions"

----------------------------------------------------------------------------
\* The code of the handler and of the service between two store calls.
\* Each operator takes the request's locals q and returns them as they are
\* when the next store call is issued (pc names that call) or when the
\* response has been sent (pc = "done").

\* res.status(code).json({success: ...})
Respond(q, code) ==
    [q EXCEPT !.pc = "done",
              !.resp = [status |-> code, success |-> (code \in {200, 201})],
              !.sent = q.sent + 1]

\* a route's catch block: res.status(500).json({success: false, message: error.message})
RespondError(q, error) ==
    [Respond(q, 500) EXCEPT !.message = error]

\* faulty variant of RouteRespond: the 404 branch does not return and the
\* handler goes on to res.json
RouteRespond_NoReturn(q) ==
    IF q.updatedTask.id = Null THEN Respond(Respond(q, 404), 200) ELSE Respond(q, 200)

\* router.post('/action'), after the switch: 404 when updatedTask is null
RouteRespond(q) ==
    IF q.updatedTask.id = Null THEN Respond(q, 404) ELSE Respond(q, 200)

\* logAction up to its first store call: 'unknown' and '' skip the staff look-ups
StartLog(q, operatorId, actionType, oldValue, newValue, ret) ==
    LET q1 == [q EXCEPT
                 !.log = [operatorId |-> operatorId, actionType |-> actionType,
                          oldValue |-> oldValue, newValue |-> newValue, ret |-> ret],
                 !.staffRecordId = Null]
    IN  IF operatorId = "unknown" \/ operatorId = ""
        THEN [q1 EXCEPT !.pc = "log_create"]
        ELSE [q1 EXCEPT !.pc = "log_staff"]

\* faulty variant of AuditFields: old and new value are exchanged
AuditFields_Swapped(q) ==
    [task_id |-> q.task_id,
     action_type |-> MapActionType(q.log.actionType),
     action |-> q.log.actionType,
     staff_id |-> q.staffRecordId,
     old_value |-> IF Truthy(q.log.newValue) THEN q.log.newValue ELSE Null,
     new_value |-> IF Truthy(q.log.oldValue) THEN q.log.oldValue ELSE Null]

\* faulty variant of AuditFields: without a Staff record the operator id
\* itself is written as the staff reference
AuditFields_RawOperator(q) ==
    [task_id |-> q.task_id,
     action_type |-> MapActionType(q.log.actionType),
     action |-> q.log.actionType,
     staff_id |-> IF q.staffRecordId = Null THEN q.log.operatorId ELSE q.staffRecordId,
     old_value |-> IF Truthy(q.log.oldValue) THEN q.log.oldValue ELSE Null,
     new_value |-> IF Truthy(q.log.newValue) THEN q.log.newValue ELSE Null]

\* the record logAction creates in Audit_Log
AuditFields(q) ==
    [task_id |-> q.task_id,
     action_type |-> MapActionType(q.log.actionType),
     action |-> q.log.actionType,
     staff_id |-> q.staffRecordId,
     old_value |-> IF Truthy(q.log.oldValue) THEN q.log.oldValue ELSE Null,
     new_value |-> IF Truthy(q.log.newValue) THEN q.log.newValue ELSE Null]

\* the status and the operator the route passes to updateTaskStatus
TargetStatus(action) ==
    CASE action = "START_PICKING" -> "Picking"
      [] action = "START_PACKING" -> "Packed"
      [] action = "START_INSPECTION" -> "Inspecting"
      [] action = "COMPLETE_INSPECTION" -> "Completed"
      [] action = "ENTER_CORRECTION" -> "Correction_Needed"
      [] action = "START_CORRECTION" -> "Correcting"
      [] action = "RESOLVE_CORRECTION" -> "Completed"
      [] action = "LABEL_CREATED" -> "Completed"
      [] action = "CANCEL_TASK" -> "Cancelled"
      [] action = "REPORT_EXCEPTION" -> "Pending"
      [] OTHER -> Null

\* the actions whose updateTaskStatus call is made without operator_id
CallsWithoutOperator ==
    {"START_PACKING", "COMPLETE_INSPECTION", "RESOLVE_CORRECTION", "LABEL_CREATED"}

ServiceOperator(q) ==
    IF q.action \in CallsWithoutOperator THEN Null ELSE q.operator_id

\* the actions whose route reads the task itself before calling updateTaskStatus
ReadsOldStatus ==
    {"COMPLETE_INSPECTION", "RESOLVE_CORRECTION", "LABEL_CREATED", "REPORT_EXCEPTION"}

\* router.post('/action'): the code that follows `updatedTask = await service(...)`
RouteAfterService(q, task) ==
    LET q1 == [q EXCEPT !.updatedTask = task, !.upd = NoFields, !.log = NoLog]
    IN  CASE q.action = "START_PACKING" ->
               IF Truthy(q.operator_id)
               THEN StartLog(q1, q.operator_id, "START_PACKING", "Picking", "Packed",
                             "manual")
               ELSE RouteRespond(q1)
          [] q.action \in ReadsOldStatus ->
               IF Truthy(q.operator_id) /\ Truthy(q.routeOld)
               THEN StartLog(q1, q.operator_id, q.action, q.routeOld,
                             TargetStatus(q.action), "manual")
               ELSE RouteRespond(q1)
          [] OTHER -> RouteRespond(q1)

\* faulty variant of StatusUpdateFields: the status is left out of the update
StatusUpdateFields_NoStatus(status, operatorId) ==
    [current_operator |-> IF Truthy(operatorId) THEN operatorId ELSE ""]

\* faulty variant of StatusUpdateFields: a status change also clears the pause
StatusUpdateFields_Unpauses(status, operatorId) ==
    [status |-> status,
     current_operator |-> IF Truthy(operatorId) THEN operatorId ELSE "",
     is_paused |-> FALSE]

\* updateTaskStatus: updateFields
StatusUpdateFields(status, operatorId) ==
    [status |-> status,
     current_operator |-> IF Truthy(operatorId) THEN operatorId ELSE ""]

\* faulty variant of UpdateTaskStatusAfterGet: without an operator no update is
\* made
UpdateTaskStatusAfterGet_OperatorRequired(q, currentTask) ==
    LET status == TargetStatus(q.action)
        operatorId == ServiceOperator(q)
    IN  IF currentTask.id = Null \/ ~Truthy(operatorId)
        THEN RouteAfterService(q, NoTask)
        ELSE StartLog([q EXCEPT !.upd = StatusUpdateFields(status, operatorId)],
                      operatorId, GetActionTypeForStatus(status),
                      currentTask.status, status, "atomic")

\* updateTaskStatus after its getTaskById
UpdateTaskStatusAfterGet(q, currentTask) ==
    LET status == TargetStatus(q.action)
        operatorId == ServiceOperator(q)
    IN  IF currentTask.id = Null
        THEN RouteAfterService(q, NoTask)
        ELSE IF Truthy(operatorId)
             THEN StartLog([q EXCEPT !.upd = StatusUpdateFields(status, operatorId)],
                           operatorId, GetActionTypeForStatus(status),
                           currentTask.status, status, "atomic")
             ELSE [q EXCEPT !.upd = StatusUpdateFields(status, operatorId),
                            !.pc = "update"]

\* faulty variant of PauseUpdateFields: pausing also sends the task back to Pending
PauseUpdateFields_ResetsStatus ==
    [is_paused |-> TRUE, current_operator |-> "", status |-> "Pending"]

\* pauseTask: updateFields
PauseUpdateFields ==
    [is_paused |-> TRUE, current_operator |-> ""]

\* pauseTask with an operator, after its getTaskById (currentTask may be null)
PauseTaskAfterGet(q, currentTask) ==
    StartLog([q EXCEPT !.upd = PauseUpdateFields], q.operator_id, "PAUSE_TASK",
             currentTask.status, currentTask.status, "atomic")

\* faulty variant of ResumeUpdateFields: the resuming operator is not assigned
ResumeUpdateFields_NoOperator(operatorId) ==
    [is_paused |-> FALSE]

\* faulty variant of ResumeUpdateFields: resuming takes the task out of the
\* exception pool
ResumeUpdateFields_LeavesPool(operatorId) ==
    [is_paused |-> FALSE, current_operator |-> operatorId,
     in_exception_pool |-> FALSE, exception_reason |-> ""]

\* resumeTask: updateFields
ResumeUpdateFields(operatorId) ==
    IF Truthy(operatorId)
    THEN [is_paused |-> FALSE, current_operator |-> operatorId]
    ELSE [is_paused |-> FALSE]

\* resumeTask after its getTaskById
ResumeTaskAfterGet(q, currentTask) ==
    IF currentTask.id = Null
    THEN RouteAfterService(q, NoTask)
    ELSE StartLog([q EXCEPT !.upd = ResumeUpdateFields(q.operator_id)],
                  q.operator_id, "RESUME_TASK", "Paused", currentTask.status, "atomic")

\* faulty variant of PayloadValid: START_PACKING checks the weight only
PayloadValid_WeightOnly(action, payload) ==
    CASE action = "START_PACKING" -> Truthy(payload.weight)
      [] action = "ENTER_CORRECTION" -> Truthy(payload.errorType)
      [] action = "REPORT_EXCEPTION" -> Truthy(payload.reason)
      [] OTHER -> TRUE

\* the payload check of the route, per action
PayloadValid(action, payload) ==
    CASE action = "START_PACKING" -> Truthy(payload.weight) /\ Truthy(payload.dimensions)
      [] action = "ENTER_CORRECTION" -> Truthy(payload.errorType)
      [] action = "REPORT_EXCEPTION" -> Truthy(payload.reason)
      [] OTHER -> TRUE

\* router.post('/action') from the start of the handler to its first store call
RouteEntry(q) ==
    IF ~Truthy(q.task_id) \/ ~Truthy(q.action)
    THEN Respond(q, 400)
    ELSE IF q.action \notin TaskAction
    THEN Respond(q, 400)
    ELSE IF ~PayloadValid(q.action, q.payload)
    THEN Respond(q, 400)
    ELSE CASE q.action \in ReadsOldStatus -> [q EXCEPT !.pc = "route_get"]
           [] q.action = "PAUSE_TASK" ->
                IF Truthy(q.operator_id)
                THEN [q EXCEPT !.pc = "service_get"]
                ELSE [q EXCEPT !.upd = PauseUpdateFields, !.pc = "update"]
           [] q.action = "RESUME_TASK" ->
                IF ~Truthy(q.operator_id)
                THEN Respond(q, 400)
                ELSE [q EXCEPT !.pc = "service_get"]
           [] OTHER -> [q EXCEPT !.pc = "service_get"]

\* the service method's code after its getTaskById
ServiceAfterGet(q, currentTask) ==
    CASE q.action = "PAUSE_TASK" -> PauseTaskAfterGet(q, currentTask)
      [] q.action = "RESUME_TASK" -> ResumeTaskAfterGet(q, currentTask)
      [] OTHER -> UpdateTaskStatusAfterGet(q, currentTask)

\* v || ''
OrEmpty(v) == IF Truthy(v) THEN v ELSE ""

\* faulty variant of SyncRespond: success means that no entry is in errors
SyncRespond_NoErrors(q) ==
    [q EXCEPT !.pc = "done", !.log = NoLog,
              !.resp = [status |-> 200, success |-> (q.errors = <<>>)],
              !.sent = q.sent + 1]

\* router.post('/sync'): res.json({success: syncedCount > 0, ...})
SyncRespond(q) ==
    [q EXCEPT !.pc = "done", !.log = NoLog,
              !.resp = [status |-> 200, success |-> (q.syncedCount > 0)],
              !.sent = q.sent + 1]

\* router.post('/sync'): the for loop from the entry at q.idx on, up to the
\* next logAction call or, after the last entry, the response
RECURSIVE SyncLoop(_)
SyncLoop(q) ==
    IF q.idx > Len(q.body.logs)
    THEN SyncRespond(q)
    ELSE LET log == q.body.logs[q.idx]
         IN  IF \/ ~Truthy(log.timestamp) \/ ~Truthy(log.action_type)
                \/ ~Truthy(log.staff_id) \/ ~Truthy(log.task_id)
             THEN SyncLoop([q EXCEPT !.errors = Append(q.errors, q.idx),
                                     !.idx = q.idx + 1])
             ELSE StartLog([q EXCEPT !.task_id = log.task_id], log.staff_id,
                           log.action_type, OrEmpty(log.old_value),
                           OrEmpty(log.new_value), "sync")

\* router.post('/sync') from the start of the handler to its first store call
SyncEntry(q) ==
    IF ~q.body.isArray
    THEN Respond(q, 400)
    ELSE SyncLoop([q EXCEPT !.idx = 1])

\* faulty variant of SyncAfterLog: a failed entry is counted as synced
SyncAfterLog_CountsFailure(q, success) ==
    SyncLoop([q EXCEPT !.syncedCount = q.syncedCount + 1, !.idx = q.idx + 1])

\* router.post('/sync') after logAction returned for the entry at q.idx
SyncAfterLog(q, success) ==
    IF success
    THEN SyncLoop([q EXCEPT !.syncedCount = q.syncedCount + 1, !.idx = q.idx + 1])
    ELSE SyncLoop([q EXCEPT !.errors = Append(q.errors, q.idx), !.idx = q.idx + 1])

\* the caller of logAction once logAction has returned: the atomic operation
\* goes on to the task update, a route's own logAction call goes on to the
\* response or, in the sync loop, to the next entry
LogReturns(q) ==
    CASE q.log.ret = "atomic" -> [q EXCEPT !.pc = "update"]
      [] q.log.ret = "issue" -> Respond([q EXCEPT !.log = NoLog], 200)
      [] q.log.ret = "sync" -> SyncAfterLog(q, q.calls[Len(q.calls)].ok)
      [] OTHER -> RouteRespond([q EXCEPT !.log = NoLog])

\* faulty variant of AfterLogCreate: a failed audit create is rethrown to the route
AfterLogCreate_Rethrows(q) ==
    IF ~q.calls[Len(q.calls)].ok
    THEN Respond([q EXCEPT !.upd = NoFields, !.log = NoLog], 500)
    ELSE LogReturns(q)

\* logAction after the audit create returned or failed: the failure is
\* swallowed (logAction returns false), the caller goes on
AfterLogCreate(q) ==
    LogReturns(q)

\* faulty variant of ChecklistUpdateFields: saving the checklist also resets
\* the task
ChecklistUpdateFields_ResetsTask(checklistJson) ==
    [checklist_json |-> checklistJson, status |-> "Pending", current_operator |-> ""]

\* updateTaskChecklist: the fields of its update
ChecklistUpdateFields(checklistJson) ==
    [checklist_json |-> checklistJson]

\* router.put('/:id/checklist') from the start of the handler to its store call
ChecklistEntry(q) ==
    IF ~Truthy(q.body.checklist_json)
    THEN Respond(q, 400)
    ELSE [q EXCEPT !.upd = ChecklistUpdateFields(q.body.checklist_json),
                   !.pc = "update"]

\* faulty variant of ExceptionPoolFields: the status is the lower-case word
\* that the route writes to the audit log
ExceptionPoolFields_LowerCase(exceptionReason, description) ==
    [status |-> "pending", in_exception_pool |-> TRUE,
     exception_reason |-> exceptionReason, exception_notes |-> description,
     current_operator |-> ""]

\* moveTaskToExceptionPool: the fields of its update
ExceptionPoolFields(exceptionReason, description) ==
    [status |-> "Pending", in_exception_pool |-> TRUE,
     exception_reason |-> exceptionReason, exception_notes |-> description,
     current_operator |-> ""]

\* faulty variant of IssueEntry: the description is not required
IssueEntry_DescriptionOptional(q) ==
    IF \/ ~Truthy(q.task_id) \/ ~Truthy(q.operator_id)
       \/ ~Truthy(q.body.issue_type)
    THEN Respond(q, 400)
    ELSE [q EXCEPT !.upd = ExceptionPoolFields(q.body.issue_type, q.body.description),
                   !.pc = "update"]

\* router.post('/report') from the start of the handler to its first store call
IssueEntry(q) ==
    IF \/ ~Truthy(q.task_id) \/ ~Truthy(q.operator_id)
       \/ ~Truthy(q.body.issue_type) \/ ~Truthy(q.body.description)
    THEN Respond(q, 400)
    ELSE [q EXCEPT !.upd = ExceptionPoolFields(q.body.issue_type, q.body.description),
                   !.pc = "update"]

\* router.post('/report') after moveTaskToExceptionPool returned: its logAction call
IssueAfterMove(q) ==
    StartLog([q EXCEPT !.upd = NoFields], q.operator_id, "REPORT_ISSUE",
             q.body.task_status, "pending", "issue")

\* the code that follows a task update that succeeded
AfterTaskUpdate(q, task) ==
    CASE q.kind = "issue" -> IssueAfterMove(q)
      [] q.kind = "checklist" ->
           RouteRespond([q EXCEPT !.updatedTask = task, !.upd = NoFields])
      [] OTHER -> RouteAfterService(q, task)

\* router.get('/:id') of the tasks routes, after getTaskById
TaskGetRespond(q, task) ==
    IF task.id = Null
    THEN Respond(q, 404)
    ELSE Respond([q EXCEPT !.updatedTask = task], 200)

\* router.get('/') of the staff routes, after getAllStaffOptimized
StaffListRespond(q, ok) ==
    IF ok
    THEN Respond([q EXCEPT !.data = [i \in 1..Len(staff) |-> MapStaffRecord(staff[i])]],
                 200)
    ELSE RespondError(q, "Failed to fetch staff from Airtable")

\* router.post('/checkin') from the start of the handler to its store call
CheckinEntry(q) ==
    IF ~Truthy(q.staffId) \/ ~Truthy(q.action)
    THEN Respond(q, 400)
    ELSE [q EXCEPT !.pc = "staff_get"]

\* faulty variant of AfterStaffGet: any action of a known staff member is echoed
AfterStaffGet_EchoesAny(q, member) ==
    IF member.id = Null
    THEN Respond(q, 404)
    ELSE Respond([q EXCEPT !.data = <<member>>], 200)

\* router.get('/:id') and router.post('/checkin') of the staff routes, after
\* getStaffById
AfterStaffGet(q, member) ==
    IF member.id = Null
    THEN Respond(q, 404)
    ELSE IF q.kind = "checkin" /\ q.action \notin {"CHECK_IN", "CHECK_OUT"}
    THEN Respond(q, 400)
    ELSE Respond([q EXCEPT !.data = <<member>>], 200)

\* router.post('/') of the staff routes up to createStaff's store call
PostStaffEntry(q) ==
    IF ~Truthy(q.body.name)
    THEN Respond(q, 400)
    ELSE [q EXCEPT !.pc = "staff_create"]

\* router.post('/') of the staff routes, after createStaff
AfterStaffCreate(q, ok, rec) ==
    IF ok
    THEN Respond([q EXCEPT !.data = <<MapStaffRecord(rec)>>], 201)
    ELSE RespondError(q, "Failed to create staff member")

\* router.put('/:id') of the staff routes up to updateStaff's first store call
PutStaffEntry(q) ==
    IF ~Truthy(q.body.name)
    THEN Respond(q, 400)
    ELSE [q EXCEPT !.pc = "staff_find"]

\* updateStaff / deleteStaff after the select by staff_id: no record, or a
\* select that failed, makes the service return null / false and the route
\* answer 404
AfterStaffFind(q, ok, records) ==
    IF ok /\ Len(records) > 0
    THEN [q EXCEPT !.staffRecordId = records[1].id,
                   !.pc = IF q.kind = "staff_put" THEN "staff_update" ELSE "staff_destroy"]
    ELSE Respond(q, 404)

\* router.put('/:id') after updateStaff's update: a failure makes updateStaff
\* return null
AfterStaffUpdate(q, ok, rec) ==
    IF ok
    THEN Respond([q EXCEPT !.data = <<MapStaffRecord(rec)>>], 200)
    ELSE Respond(q, 404)

\* router.delete('/:id') after deleteStaff's destroy: a failure makes
\* deleteStaff return false
AfterStaffDestroy(q, ok) ==
    IF ok THEN Respond(q, 200) ELSE Respond(q, 404)

\* router.get('/') of the dashboard, after getTasksGroupedByStatusOptimized
DashboardRespond(q, ok, all) ==
    IF ok
    THEN LET groups == SimplifiedGroups(GroupByStatus(all))
         IN  Respond([q EXCEPT !.dashboard = [tasks |-> groups,
                                              stats |-> DashboardStats(groups)]], 200)
    ELSE RespondError(q, "Failed to fetch tasks from Airtable")

\* errorHandler: the error middleware, reached by the errors of the
\* middleware that runs before the routes
ErrorHandler(q, error) ==
    LET isDevelopment == (nodeEnv = "development")
    IN  CASE error.name = "AirtableError" ->
               [Respond(q, 400) EXCEPT
                  !.message = IF isDevelopment THEN error.message
                              ELSE "Database error occurred"]
          [] error.name = "ValidationError" ->
               [Respond(q, 400) EXCEPT !.message = error.message]
          [] OTHER ->
               [Respond(q, 500) EXCEPT
                  !.message = IF isDevelopment THEN error.message
                              ELSE "Something went wrong"]

\* the Error a service method throws from its catch block
ServiceError(q) ==
    CASE q.kind = "checklist" -> "Failed to update task checklist"
      [] q.kind = "issue" -> "Failed to move task to exception pool"
      [] q.action = "PAUSE_TASK" -> "Failed to pause task"
      [] q.action = "RESUME_TASK" -> "Failed to resume task"
      [] OTHER -> "Failed to update task status"

\* faulty variant of AfterUpdateFailed: the failure is swallowed as "no task"
AfterUpdateFailed_Swallows(q) ==
    RouteRespond([q EXCEPT !.upd = NoFields, !.log = NoLog, !.updatedTask = NoTask])

\* faulty variant of AfterUpdateFailed: a failed task update is issued a
\* second time before the failure is reported
AfterUpdateFailed_Retries(q) ==
    IF Len(q.calls) >= 2 /\ q.calls[Len(q.calls) - 1] = [op |-> "task_update", ok |-> FALSE]
    THEN RespondError([q EXCEPT !.upd = NoFields, !.log = NoLog], ServiceError(q))
    ELSE [q EXCEPT !.pc = "update"]

\* a failed task update: the service rethrows, the route's catch answers 500
AfterUpdateFailed(q) ==
    RespondError([q EXCEPT !.upd = NoFields, !.log = NoLog], ServiceError(q))

----------------------------------------------------------------------------
\* Initial state: tasks are created outside this system, in any enumerated
\* status, paused or not, with or without an operator; the audit log is empty.

\* a task outside the exception pool
PlainTasks ==
    [order_name : {"ORD-1"},
     shipping_name : {"Alice"},
     status : TaskStatus,
     current_operator : {"", "S1", "S9"},
     is_paused : BOOLEAN,
     in_exception_pool : {FALSE},
     exception_reason : {""},
     exception_notes : {""},
     checklist_json : {"[]"}]

\* a task an issue report has moved to the exception pool, its checklist
\* filled in before
PooledTasks ==
    [order_name : {"ORD-1"},
     shipping_name : {"Alice"},
     status : {"Pending"},
     current_operator : {""},
     is_paused : BOOLEAN,
     in_exception_pool : {TRUE},
     exception_reason : {"damaged_item"},
     exception_notes : {"box torn"},
     checklist_json : {"[1]"}]

InitialTasks ==
    [ExistingTaskIds -> PlainTasks \cup PooledTasks]

InitialStaff ==
    <<[id |-> "recS1", staff_id |-> "S1", name |-> "Ann"]>>

Init ==
    /\ tasks \in InitialTasks
    /\ staff = InitialStaff
    /\ audit = <<>>
    /\ req = [r \in Slots |-> IdleReq]
    /\ nreq = 0
    /\ nodeEnv \in {"development", "production"}
    /\ writes = <<>>

----------------------------------------------------------------------------
\* Actions: the arrival of a request, and one action per store call

\* a request as it arrives
NewRequest(taskId, action, operatorId, payload) ==
    [IdleReq EXCEPT !.pc = "start", !.kind = "action", !.task_id = taskId, !.action = action,
                    !.operator_id = operatorId, !.payload = payload,
                    !.pre = [tasks |-> tasks, audit |-> audit, staff |-> staff]]

\* POST /api/tasks/action arrives; the handler runs to its first store call
PostAction(r) ==
    /\ req[r].pc \in {"idle", "done"}
    /\ \A o \in Slots : req[o].pc \in {"idle", "done"}
    /\ nreq < MaxRequests
    /\ \E taskId \in RequestTaskIds, action \in RequestActions, operatorId \in OperatorIds :
         \E payload \in PayloadsFor(action) :
            req' = [req EXCEPT ![r] =
                      RouteEntry(NewRequest(taskId, action, operatorId, payload))]
    /\ nreq' = nreq + 1
    /\ UNCHANGED <<tasks, staff, audit, nodeEnv, writes>>

\* the server takes the next request (Spec handles one request at a time)
Accepts(r) ==
    /\ req[r].pc \in {"idle", "done"}
    /\ \A o \in Slots : req[o].pc \in {"idle", "done"}
    /\ nreq < MaxRequests

\* a request of a route other than POST /api/tasks/action as it arrives
NewRequestOf(kind) ==
    [IdleReq EXCEPT !.pc = "start", !.kind = kind,
                    !.pre = [tasks |-> tasks, audit |-> audit, staff |-> staff]]

\* PUT /api/tasks/:id/checklist arrives; the handler runs to its store call
PutChecklist(r) ==
    /\ Accepts(r)
    /\ \E taskId \in RequestTaskIds \ {Null}, checklistJson \in ChecklistBodies :
         req' = [req EXCEPT ![r] =
                   ChecklistEntry([NewRequestOf("checklist") EXCEPT
                                     !.task_id = taskId,
                                     !.body.checklist_json = checklistJson])]
    /\ nreq' = nreq + 1
    /\ UNCHANGED <<tasks, staff, audit, nodeEnv, writes>>

\* GET /api/tasks/:id arrives
GetTask(r) ==
    /\ Accepts(r)
    /\ \E taskId \in RequestTaskIds \ {Null} :
         req' = [req EXCEPT ![r] =
                   [NewRequestOf("task_get") EXCEPT !.task_id = taskId, !.pc = "task_get"]]
    /\ nreq' = nreq + 1
    /\ UNCHANGED <<tasks, staff, audit, nodeEnv, writes>>

\* GET /api/staff arrives
GetStaff(r) ==
    /\ Accepts(r)
    /\ req' = [req EXCEPT ![r] = [NewRequestOf("staff_list") EXCEPT !.pc = "staff_all"]]
    /\ nreq' = nreq + 1
    /\ UNCHANGED <<tasks, staff, audit, nodeEnv, writes>>

\* GET /api/staff/:id arrives
GetStaffMember(r) ==
    /\ Accepts(r)
    /\ \E staffId \in StaffIds :
         req' = [req EXCEPT ![r] =
                   [NewRequestOf("staff_get") EXCEPT !.staffId = staffId, !.pc = "staff_get"]]
    /\ nreq' = nreq + 1
    /\ UNCHANGED <<tasks, staff, audit, nodeEnv, writes>>

\* POST /api/staff/checkin arrives; the handler runs to its store call
PostCheckin(r) ==
    /\ Accepts(r)
    /\ \E staffId \in OperatorIds, action \in CheckinActions :
         req' = [req EXCEPT ![r] =
                   CheckinEntry([NewRequestOf("checkin") EXCEPT
                                   !.staffId = staffId, !.action = action])]
    /\ nreq' = nreq + 1
    /\ UNCHANGED <<tasks, staff, audit, nodeEnv, writes>>

\* POST /api/staff arrives; the handler runs to its store call
PostStaff(r) ==
    /\ Accepts(r)
    /\ \E name \in StaffNames, staffId \in NewStaffIds :
         req' = [req EXCEPT ![r] =
                   PostStaffEntry([NewRequestOf("staff_post") EXCEPT
                                     !.body.name = name, !.body.staff_id = staffId])]
    /\ nreq' = nreq + 1
    /\ UNCHANGED <<tasks, staff, audit, nodeEnv, writes>>

\* PUT /api/staff/:id arrives; the handler runs to its first store call
PutStaff(r) ==
    /\ Accepts(r)
    /\ \E staffId \in StaffIds, name \in StaffNames :
         req' = [req EXCEPT ![r] =
                   PutStaffEntry([NewRequestOf("staff_put") EXCEPT
                                    !.staffId = staffId, !.body.name = name])]
    /\ nreq' = nreq + 1
    /\ UNCHANGED <<tasks, staff, audit, nodeEnv, writes>>

\* DELETE /api/staff/:id arrives
DeleteStaff(r) ==
    /\ Accepts(r)
    /\ \E staffId \in StaffIds :
         req' = [req EXCEPT ![r] =
                   [NewRequestOf("staff_delete") EXCEPT
                      !.staffId = staffId, !.pc = "staff_find"]]
    /\ nreq' = nreq + 1
    /\ UNCHANGED <<tasks, staff, audit, nodeEnv, writes>>

\* POST /api/issues/report arrives; the handler runs to its first store call
PostIssue(r) ==
    /\ Accepts(r)
    /\ \E taskId \in RequestTaskIds, operatorId \in OperatorIds,
          issueType \in IssueTypes, description \in Descriptions,
          taskStatus \in ReportedStatuses :
         req' = [req EXCEPT ![r] =
                   IssueEntry([NewRequestOf("issue") EXCEPT
                                 !.task_id = taskId, !.operator_id = operatorId,
                                 !.body.issue_type = issueType,
                                 !.body.description = description,
                                 !.body.task_status = taskStatus])]
    /\ nreq' = nreq + 1
    /\ UNCHANGED <<tasks, staff, audit, nodeEnv, writes>>

\* POST /api/audit-logs/sync arrives; the handler runs to its first store call
PostSync(r) ==
    /\ Accepts(r)
    /\ \E isArray \in BOOLEAN :
         \E logs \in IF isArray THEN SyncBodies ELSE {<<>>} :
            req' = [req EXCEPT ![r] =
                      SyncEntry([NewRequestOf("sync") EXCEPT
                                   !.body.isArray = isArray, !.body.logs = logs])]
    /\ nreq' = nreq + 1
    /\ UNCHANGED <<tasks, staff, audit, nodeEnv, writes>>

\* a request whose body express.json() rejects: the error middleware answers
BadBody(r) ==
    /\ Accepts(r)
    /\ \E error \in BodyParserErrors :
         req' = [req EXCEPT ![r] = ErrorHandler(NewRequestOf("bad_body"), error)]
    /\ nreq' = nreq + 1
    /\ UNCHANGED <<tasks, staff, audit, nodeEnv, writes>>

\* GET /api/dashboard arrives
GetDashboard(r) ==
    /\ Accepts(r)
    /\ req' = [req EXCEPT ![r] = [NewRequestOf("dashboard") EXCEPT !.pc = "tasks_all"]]
    /\ nreq' = nreq + 1
    /\ UNCHANGED <<tasks, staff, audit, nodeEnv, writes>>

\* getAllTasksOptimized: base(TASKS_TABLE).select(...).all(), then the
\* operator look-up of every record
TasksSelectAll(r) ==
    /\ req[r].pc = "tasks_all"
    /\ \E ok \in BOOLEAN, opOk \in [DOMAIN tasks -> BOOLEAN] :
         LET q == req[r]
         IN  req' = [req EXCEPT ![r] =
                       DashboardRespond([q EXCEPT !.storeFail = q.storeFail \/ ~ok], ok,
                                        GetAllTasks(opOk))]
    /\ UNCHANGED <<tasks, staff, audit, nreq, nodeEnv, writes>>

\* getTaskById of GET /api/tasks/:id
TaskFind(r) ==
    /\ req[r].pc = "task_get"
    /\ \E ok \in BOOLEAN, opOk \in BOOLEAN :
         LET q == req[r]
         IN  req' = [req EXCEPT ![r] =
                       TaskGetRespond([q EXCEPT !.storeFail = q.storeFail \/ ~ok],
                                      GetTaskById(q.task_id, ok, opOk))]
    /\ UNCHANGED <<tasks, staff, audit, nreq, nodeEnv, writes>>

\* getAllStaffOptimized: base(STAFF_TABLE).select().all()
StaffSelectAll(r) ==
    /\ req[r].pc = "staff_all"
    /\ \E ok \in BOOLEAN :
         LET q == req[r]
         IN  req' = [req EXCEPT ![r] =
                       StaffListRespond([q EXCEPT !.storeFail = q.storeFail \/ ~ok], ok)]
    /\ UNCHANGED <<tasks, staff, audit, nreq, nodeEnv, writes>>

\* getStaffById of GET /api/staff/:id and of POST /api/staff/checkin
StaffGet(r) ==
    /\ req[r].pc = "staff_get"
    /\ \E ok \in BOOLEAN :
         LET q == req[r]
         IN  req' = [req EXCEPT ![r] =
                       AfterStaffGet([q EXCEPT !.storeFail = q.storeFail \/ ~ok],
                                     GetStaffById(q.staffId, ok))]
    /\ UNCHANGED <<tasks, staff, audit, nreq, nodeEnv, writes>>

\* createStaff: base(STAFF_TABLE).create(fields)
StaffCreate(r) ==
    /\ req[r].pc = "staff_create"
    /\ \E ok \in BOOLEAN, ts \in Timestamps4 :
         LET q == req[r]
             rec == [id |-> NewRecordId(nreq),
                     staff_id |-> NewStaffId(q.body.name, q.body.staff_id, ts),
                     name |-> q.body.name]
             q1 == [q EXCEPT !.calls = Append(q.calls, [op |-> "staff_create", ok |-> ok]),
                             !.storeFail = q.storeFail \/ ~ok]
         IN  /\ staff' = IF ok THEN Append(staff, rec) ELSE staff
             /\ req' = [req EXCEPT ![r] = AfterStaffCreate(q1, ok, rec)]
    /\ UNCHANGED <<tasks, audit, nreq, nodeEnv, writes>>

\* updateStaff / deleteStaff: the select by staff_id
StaffFind(r) ==
    /\ req[r].pc = "staff_find"
    /\ \E ok \in BOOLEAN :
         LET q == req[r]
         IN  req' = [req EXCEPT ![r] =
                       AfterStaffFind([q EXCEPT !.storeFail = q.storeFail \/ ~ok], ok,
                                      StaffRecords(q.staffId))]
    /\ UNCHANGED <<tasks, staff, audit, nreq, nodeEnv, writes>>

\* updateStaff: base(STAFF_TABLE).update(records[0].id, {name})
StaffUpdate(r) ==
    /\ req[r].pc = "staff_update"
    /\ \E ok \in BOOLEAN :
         LET q == req[r]
             done == ok /\ \E i \in DOMAIN staff : staff[i].id = q.staffRecordId
             i == CHOOSE i \in DOMAIN staff : staff[i].id = q.staffRecordId
             rec == [staff[i] EXCEPT !.name = q.body.name]
             q1 == [q EXCEPT !.calls = Append(q.calls, [op |-> "staff_update", ok |-> done]),
                             !.storeFail = q.storeFail \/ ~ok]
         IN  IF done
             THEN /\ staff' = [staff EXCEPT ![i] = rec]
                  /\ req' = [req EXCEPT ![r] = AfterStaffUpdate(q1, TRUE, rec)]
             ELSE /\ staff' = staff
                  /\ req' = [req EXCEPT ![r] = AfterStaffUpdate(q1, FALSE, NoStaffRecord)]
    /\ UNCHANGED <<tasks, audit, nreq, nodeEnv, writes>>

\* deleteStaff: base(STAFF_TABLE).destroy(records[0].id)
StaffDestroy(r) ==
    /\ req[r].pc = "staff_destroy"
    /\ \E ok \in BOOLEAN :
         LET q == req[r]
             done == ok /\ \E i \in DOMAIN staff : staff[i].id = q.staffRecordId
             q1 == [q EXCEPT !.calls = Append(q.calls, [op |-> "staff_destroy", ok |-> done]),
                             !.storeFail = q.storeFail \/ ~ok]
         IN  /\ staff' = IF done
                         THEN SelectSeq(staff, LAMBDA s : s.id # q.staffRecordId)
                         ELSE staff
             /\ req' = [req EXCEPT ![r] = AfterStaffDestroy(q1, done)]
    /\ UNCHANGED <<tasks, audit, nreq, nodeEnv, writes>>

\* the route's own getTaskById (old status for its logAction call)
RouteGet(r) ==
    /\ req[r].pc = "route_get"
    /\ \E ok \in BOOLEAN, opOk \in BOOLEAN :
         LET q == req[r]
             task == GetTaskById(q.task_id, ok, opOk)
         IN  req' = [req EXCEPT ![r] =
                       [q EXCEPT !.routeOld = task.status, !.pc = "service_get",
                                 !.storeFail = q.storeFail \/ ~ok]]
    /\ UNCHANGED <<tasks, staff, audit, nreq, nodeEnv, writes>>

\* getTaskById inside updateTaskStatus, pauseTask (with operator) and resumeTask
ServiceGet(r) ==
    /\ req[r].pc = "service_get"
    /\ \E ok \in BOOLEAN, opOk \in BOOLEAN :
         LET q == req[r]
             task == GetTaskById(q.task_id, ok, opOk)
         IN  req' = [req EXCEPT ![r] =
                       ServiceAfterGet([q EXCEPT !.storeFail = q.storeFail \/ ~ok], task)]
    /\ UNCHANGED <<tasks, staff, audit, nreq, nodeEnv, writes>>

\* logAction: getStaffById(operatorId); not found or failed: no staff reference
LogStaff(r) ==
    /\ req[r].pc = "log_staff"
    /\ \E ok \in BOOLEAN :
         LET q == req[r]
             found == ok /\ Len(StaffRecords(q.log.operatorId)) > 0
         IN  req' = [req EXCEPT ![r] =
                       [q EXCEPT !.pc = IF found THEN "log_recid" ELSE "log_create",
                                 !.storeFail = q.storeFail \/ ~ok]]
    /\ UNCHANGED <<tasks, staff, audit, nreq, nodeEnv, writes>>

\* logAction: getStaffRecordId(operatorId)
LogRecordId(r) ==
    /\ req[r].pc = "log_recid"
    /\ \E ok \in BOOLEAN :
         LET q == req[r]
             recs == StaffRecords(q.log.operatorId)
         IN  req' = [req EXCEPT ![r] =
                       [q EXCEPT !.pc = "log_create",
                                 !.staffRecordId =
                                    IF ok /\ Len(recs) > 0 THEN recs[1].id ELSE Null,
                                 !.storeFail = q.storeFail \/ ~ok]]
    /\ UNCHANGED <<tasks, staff, audit, nreq, nodeEnv, writes>>

\* logAction: base(AUDIT_LOG_TABLE).create(auditFields)
LogCreate(r) ==
    /\ req[r].pc = "log_create"
    /\ \E ok \in BOOLEAN :
         LET q == req[r]
             q1 == [q EXCEPT !.calls = Append(q.calls, [op |-> "audit_create", ok |-> ok]),
                             !.logged =
                                IF ok
                                THEN Append(q.logged, [operatorId |-> q.log.operatorId,
                                                       record |-> AuditFields(q)])
                                ELSE q.logged,
                             !.storeFail = q.storeFail \/ ~ok]
         IN  /\ audit' = IF ok THEN AuditCreate(audit, AuditFields(q)) ELSE audit
             /\ req' = [req EXCEPT ![r] = AfterLogCreate(q1)]
    /\ UNCHANGED <<tasks, staff, nreq, nodeEnv, writes>>

\* base(TASKS_TABLE).update(taskId, fields), then mapTaskRecord of the result
TaskUpdate(r) ==
    /\ req[r].pc = "update"
    /\ \E ok \in BOOLEAN, opOk \in BOOLEAN :
         LET q == req[r]
             done == ok /\ q.task_id \in DOMAIN tasks
             rec == StoreUpdate(tasks[q.task_id], q.upd)
             q1 == [q EXCEPT !.calls = Append(q.calls, [op |-> "task_update", ok |-> done]),
                             !.storeFail = q.storeFail \/ ~ok]
         IN  IF done
             THEN /\ tasks' = [tasks EXCEPT ![q.task_id] = rec]
                  /\ writes' = Append(writes, [slot |-> r, id |-> q.task_id,
                                                fields |-> q.upd])
                  /\ req' = [req EXCEPT ![r] =
                               AfterTaskUpdate(q1, MapTaskRecord(q.task_id, rec, opOk))]
             ELSE /\ UNCHANGED <<tasks, writes>>
                  /\ req' = [req EXCEPT ![r] = AfterUpdateFailed(q1)]
    /\ UNCHANGED <<staff, audit, nreq, nodeEnv>>

Next ==
    \E r \in Slots :
        \/ PostAction(r)
        \/ PutChecklist(r)
        \/ GetTask(r)
        \/ GetStaff(r)
        \/ GetStaffMember(r)
        \/ PostCheckin(r)
        \/ PostStaff(r)
        \/ PutStaff(r)
        \/ DeleteStaff(r)
        \/ PostIssue(r)
        \/ PostSync(r)
        \/ BadBody(r)
        \/ GetDashboard(r)
        \/ TasksSelectAll(r)
        \/ TaskFind(r)
        \/ StaffSelectAll(r)
        \/ StaffGet(r)
        \/ StaffCreate(r)
        \/ StaffFind(r)
        \/ StaffUpdate(r)
        \/ StaffDestroy(r)
        \/ RouteGet(r)
        \/ ServiceGet(r)
        \/ LogStaff(r)
        \/ LogRecordId(r)
        \/ LogCreate(r)
        \/ TaskUpdate(r)

Spec == Init /\ [][Next]_vars

----------------------------------------------------------------------------
\* Two concurrent POST /api/tasks/action requests on the same task: each
\* handler is a chain of awaits, and the steps of the two interleave in any
\* order.

ConcSlots == {1, 2}

\* the task both requests name: being picked by S1
ConcInitialTasks ==
    [t \in ExistingTaskIds |->
        [order_name |-> "ORD-1", shipping_name |-> "Alice", status |-> "Picking",
         current_operator |-> "S1",
         is_paused |-> FALSE, in_exception_pool |-> FALSE, exception_reason |-> "",
         exception_notes |-> "", checklist_json |-> "[]"]]

\* the actions of the two requests
ConcActions == {"START_INSPECTION", "PAUSE_TASK", "REPORT_EXCEPTION", "CANCEL_TASK"}

InitConc ==
    /\ tasks = ConcInitialTasks
    /\ staff = InitialStaff
    /\ audit = <<>>
    /\ req = [r \in ConcSlots |-> IdleReq]
    /\ nreq = 0
    /\ nodeEnv = "production"
    /\ writes = <<>>

\* a valid POST /api/tasks/action on the task arrives while the other request
\* may be in flight
ConcurrentAction(r) ==
    /\ req[r].pc = "idle"
    /\ \E taskId \in ExistingTaskIds, action \in ConcActions, operatorId \in {Null, "S1"} :
         \E payload \in {p \in PayloadsFor(action) : PayloadValid(action, p)} :
            req' = [req EXCEPT ![r] =
                      RouteEntry(NewRequest(taskId, action, operatorId, payload))]
    /\ nreq' = nreq + 1
    /\ UNCHANGED <<tasks, staff, audit, nodeEnv, writes>>

\* the next store call of the request in slot r
StoreCall(r) ==
    \/ RouteGet(r)
    \/ ServiceGet(r)
    \/ LogStaff(r)
    \/ LogRecordId(r)
    \/ LogCreate(r)
    \/ TaskUpdate(r)

NextConc ==
    \E r \in ConcSlots :
        \/ ConcurrentAction(r)
        \/ RouteGet(r)
        \/ ServiceGet(r)
        \/ LogStaff(r)
        \/ LogRecordId(r)
        \/ LogCreate(r)
        \/ TaskUpdate(r)

SpecConc == InitConc /\ [][NextConc]_vars

----------------------------------------------------------------------------
\* Every store call of a request in flight eventually returns or fails

SpecLive == Init /\ [][Next]_vars /\ \A r \in Slots : WF_vars(StoreCall(r))

----------------------------------------------------------------------------
\* A sequence of staff requests, handled one after the other; the request in
\* slot k is the k-th to arrive, so that the answers of the earlier requests
\* stay in the state

MaxStaffRequests == 3

StaffSlots == 1..MaxStaffRequests

\* the staff_id values of the staff requests: S1 has a record at the start
SeqStaffIds == {"S1"}

InitStaffSeq ==
    /\ tasks \in [ExistingTaskIds -> {t \in PlainTasks :
                                        t.status = "Picking" /\ ~t.is_paused}]
    /\ staff = InitialStaff
    /\ audit = <<>>
    /\ req = [r \in StaffSlots |-> IdleReq]
    /\ nreq = 0
    /\ nodeEnv = "production"
    /\ writes = <<>>

\* the next request arrives when the one before it has been answered
SeqAccepts(r) ==
    /\ r = nreq + 1
    /\ \A o \in StaffSlots : req[o].pc \in {"idle", "done"}

\* POST /api/staff arrives, with a staff_id or without
SeqPostStaff(r) ==
    /\ SeqAccepts(r)
    /\ \E name \in StaffNames, staffId \in SeqStaffIds \cup {Null} :
         req' = [req EXCEPT ![r] =
                   PostStaffEntry([NewRequestOf("staff_post") EXCEPT
                                     !.body.name = name, !.body.staff_id = staffId])]
    /\ nreq' = nreq + 1
    /\ UNCHANGED <<tasks, staff, audit, nodeEnv, writes>>

\* DELETE /api/staff/:id arrives
SeqDeleteStaff(r) ==
    /\ SeqAccepts(r)
    /\ \E staffId \in SeqStaffIds :
         req' = [req EXCEPT ![r] =
                   [NewRequestOf("staff_delete") EXCEPT
                      !.staffId = staffId, !.pc = "staff_find"]]
    /\ nreq' = nreq + 1
    /\ UNCHANGED <<tasks, staff, audit, nodeEnv, writes>>

\* GET /api/staff/:id arrives
SeqGetStaffMember(r) ==
    /\ SeqAccepts(r)
    /\ \E staffId \in SeqStaffIds :
         req' = [req EXCEPT ![r] =
                   [NewRequestOf("staff_get") EXCEPT !.staffId = staffId, !.pc = "staff_get"]]
    /\ nreq' = nreq + 1
    /\ UNCHANGED <<tasks, staff, audit, nodeEnv, writes>>

\* GET /api/staff arrives
SeqGetStaff(r) ==
    /\ SeqAccepts(r)
    /\ req' = [req EXCEPT ![r] = [NewRequestOf("staff_list") EXCEPT !.pc = "staff_all"]]
    /\ nreq' = nreq + 1
    /\ UNCHANGED <<tasks, staff, audit, nodeEnv, writes>>

NextStaffSeq ==
    \E r \in StaffSlots :
        \/ SeqPostStaff(r)
        \/ SeqDeleteStaff(r)
        \/ SeqGetStaffMember(r)
        \/ SeqGetStaff(r)
        \/ StaffCreate(r)
        \/ StaffFind(r)
        \/ StaffDestroy(r)
        \/ StaffGet(r)
        \/ StaffSelectAll(r)

SpecStaffSeq == InitStaffSeq /\ [][NextStaffSeq]_vars

----------------------------------------------------------------------------
\* The dashboard over a Tasks table of three tasks, each in any status,
\* paused or not

DashTaskIds == {"t1", "t2", "t3"}

InitDash ==
    /\ tasks \in [DashTaskIds ->
                    [order_name : {"ORD-1"},
                     shipping_name : {"Alice"},
                     status : TaskStatus,
                     current_operator : {""},
                     is_paused : BOOLEAN,
                     in_exception_pool : {FALSE},
                     exception_reason : {""},
                     exception_notes : {""},
                     checklist_json : {"[]"}]]
    /\ staff = InitialStaff
    /\ audit = <<>>
    /\ req = [r \in Slots |-> IdleReq]
    /\ nreq = 0
    /\ nodeEnv = "production"
    /\ writes = <<>>

NextDash ==
    \E r \in Slots :
        \/ GetDashboard(r)
        \/ TasksSelectAll(r)

SpecDash == InitDash /\ [][NextDash]_vars

----------------------------------------------------------------------------
\* Properties of POST /api/tasks/action

\* the request in slot r has been answered, whatever its route
Finished(r) == req[r].pc = "done"

\* the request in slot r is a POST /api/tasks/action and has been answered
Answered(r) == Finished(r) /\ req[r].kind = "action"

\* the request q attempted the store write op with outcome ok
HasCall(q, op, ok) ==
    \E i \in DOMAIN q.calls : q.calls[i] = [op |-> op, ok |-> ok]

\* the request names a task that had a record when it arrived
NamesTask(q) == q.task_id \in DOMAIN q.pre.tasks

\* the payload / operator precondition of the transition table of the
\* specification, section 4.2
TablePrecondition(q) ==
    /\ q.action = "START_PACKING" =>
          q.payload.weight # Null /\ q.payload.dimensions # Null
    /\ q.action = "ENTER_CORRECTION" => q.payload.errorType # Null
    /\ q.action = "REPORT_EXCEPTION" => q.payload.reason # Null
    /\ q.action = "RESUME_TASK" => q.operator_id # Null

\* the New Status column of the transition table of the specification
TableStatus ==
    [START_PICKING |-> "Picking", START_PACKING |-> "Packed",
     START_INSPECTION |-> "Inspecting", COMPLETE_INSPECTION |-> "Completed",
     ENTER_CORRECTION |-> "Correction_Needed", START_CORRECTION |-> "Correcting",
     RESOLVE_CORRECTION |-> "Completed", LABEL_CREATED |-> "Completed",
     CANCEL_TASK |-> "Cancelled", REPORT_EXCEPTION |-> "Pending"]

\* C1: for every current status and every status-changing action whose
\* precondition is met, a task update that succeeds leaves the task in the
\* status of the transition table, and when no store call fails the request
\* is answered 200 with that update made: no action is rejected because of
\* the task's current status.
C1_StatusFollowsTable ==
    \A r \in Slots :
        LET q == req[r] IN
        (Answered(r) /\ q.action \in DOMAIN TableStatus /\ NamesTask(q)
            /\ TablePrecondition(q)) =>
            /\ HasCall(q, "task_update", TRUE) =>
                  tasks[q.task_id].status = TableStatus[q.action]
            /\ ~q.storeFail =>
                  /\ q.resp = [status |-> 200, success |-> TRUE]
                  /\ HasCall(q, "task_update", TRUE)
                  /\ q.updatedTask.status = TableStatus[q.action]

\* C1 witness: START_PICKING on a Cancelled task is applied and answered 200
C1_Witness ==
    \E r \in Slots :
        /\ Answered(r) /\ req[r].action = "START_PICKING" /\ NamesTask(req[r])
        /\ req[r].pre.tasks[req[r].task_id].status = "Cancelled"
        /\ req[r].resp.status = 200
        /\ tasks[req[r].task_id].status = "Picking"

\* the actions that clear the operator, by the specification
ClearsOperator ==
    {"START_PACKING", "COMPLETE_INSPECTION", "RESOLVE_CORRECTION", "LABEL_CREATED",
     "PAUSE_TASK", "REPORT_EXCEPTION"}

\* C2: after a successful operator-clearing action, with or without an
\* operator_id in the request, the task's current_operator is empty (stated
\* for the requests none of whose store calls fails).
C2_OperatorCleared ==
    \A r \in Slots :
        LET q == req[r] IN
        (Answered(r) /\ q.action \in ClearsOperator /\ q.resp.status = 200
            /\ ~q.storeFail) =>
            tasks[q.task_id].current_operator = ""

\* C3: in every request that carries an operator, each Tasks update call is
\* preceded by an Audit_Log create call of the same request (stated for the
\* requests none of whose store calls fails).
C3_AuditBeforeUpdate ==
    \A r \in Slots :
        LET q == req[r] IN
        (Answered(r) /\ Truthy(q.operator_id) /\ ~q.storeFail) =>
            \A i \in DOMAIN q.calls :
                q.calls[i].op = "task_update" =>
                    \E j \in 1..(i - 1) : q.calls[j].op = "audit_create"

\* C4: when a request that carries an operator has its task update fail at
\* the store while no audit create fails, an audit record of the request is
\* in Audit_Log once the request has been answered.
C4_AuditSurvivesFailedUpdate ==
    \A r \in Slots :
        LET q == req[r] IN
        (Answered(r) /\ Truthy(q.operator_id) /\ NamesTask(q)
            /\ HasCall(q, "task_update", FALSE)
            /\ ~HasCall(q, "audit_create", FALSE)) =>
            /\ Len(audit) > Len(q.pre.audit)
            /\ audit[Len(audit)].task_id = q.task_id

\* C5: a failed audit create does not change the answer: when the task update
\* succeeds the request is answered 200; every 500 comes from a failed task
\* update; and an atomic operation whose audit create failed still attempts
\* the task update.
C5_AuditFailureNotFatal ==
    \A r \in Slots :
        LET q == req[r] IN
        Answered(r) =>
            /\ (HasCall(q, "audit_create", FALSE) /\ HasCall(q, "task_update", TRUE)) =>
                  q.resp = [status |-> 200, success |-> TRUE]
            /\ q.resp.status = 500 => HasCall(q, "task_update", FALSE)
            /\ \A i \in DOMAIN q.calls :
                  (/\ q.calls[i] = [op |-> "audit_create", ok |-> FALSE]
                   /\ \A j \in 1..(i - 1) : q.calls[j].op # "task_update"
                   /\ q.resp.status # 404) =>
                      \E j \in (i + 1)..Len(q.calls) : q.calls[j].op = "task_update"

\* C5 witness: the audit create failed, the task update succeeded, answer 200
C5_Witness ==
    \E r \in Slots :
        /\ Answered(r)
        /\ req[r].calls = <<[op |-> "audit_create", ok |-> FALSE],
                            [op |-> "task_update", ok |-> TRUE]>>
        /\ req[r].resp.status = 200

\* C6: when the audit create succeeds and the task update that follows it
\* fails, the answer is 500 with success = false, the Tasks table is as it
\* was when the request arrived, and Audit_Log is the old log plus the
\* record of this request.
C6_FailedUpdateAfterAudit ==
    \A r \in Slots :
        LET q == req[r] IN
        (Answered(r)
            /\ \E i \in DOMAIN q.calls :
                  /\ i + 1 \in DOMAIN q.calls
                  /\ q.calls[i] = [op |-> "audit_create", ok |-> TRUE]
                  /\ q.calls[i + 1] = [op |-> "task_update", ok |-> FALSE]) =>
            /\ q.resp = [status |-> 500, success |-> FALSE]
            /\ tasks = q.pre.tasks
            /\ Len(audit) = Len(q.pre.audit) + 1
            /\ SubSeq(audit, 1, Len(q.pre.audit)) = q.pre.audit
            /\ audit[Len(audit)].task_id = q.task_id

\* C6 witness: START_PICKING by S1, audit written, task update failed
C6_Witness ==
    \E r \in Slots :
        /\ Answered(r) /\ req[r].action = "START_PICKING" /\ NamesTask(req[r])
        /\ req[r].calls = <<[op |-> "audit_create", ok |-> TRUE],
                            [op |-> "task_update", ok |-> FALSE]>>
        /\ req[r].resp.status = 500
        /\ Len(audit) = Len(req[r].pre.audit) + 1

\* the effect the specification's START_PACKING example states
PackedFromPicking(q) ==
    /\ q.resp.status = 200
    /\ tasks[q.task_id].status = "Packed"
    /\ tasks[q.task_id].current_operator = ""
    /\ Len(audit) = Len(q.pre.audit) + 1
    /\ SubSeq(audit, 1, Len(q.pre.audit)) = q.pre.audit
    /\ audit[Len(audit)].task_id = q.task_id
    /\ audit[Len(audit)].old_value = "Picking"
    /\ audit[Len(audit)].new_value = "Packed"

\* START_PACKING with weight and dimensions on a task in Picking, no store failure
PackingOfPickingTask(q) ==
    /\ q.action = "START_PACKING" /\ NamesTask(q)
    /\ q.payload.weight # Null /\ q.payload.dimensions # Null
    /\ q.pre.tasks[q.task_id].status = "Picking"
    /\ ~q.storeFail

\* C7 as stated: START_PACKING with weight and dimensions on a Picking task
\* yields Packed, an empty operator and exactly one new audit entry
\* Picking -> Packed.
C7_Original ==
    \A r \in Slots :
        (Answered(r) /\ PackingOfPickingTask(req[r])) => PackedFromPicking(req[r])

\* C7 amended: the same, for a request that carries an operator_id.
C7_PackingExample ==
    \A r \in Slots :
        (Answered(r) /\ PackingOfPickingTask(req[r]) /\ req[r].operator_id # Null) =>
            PackedFromPicking(req[r])

\* C7 witness: S1 packs a Picking task
C7_Witness ==
    \E r \in Slots :
        /\ Answered(r) /\ PackingOfPickingTask(req[r]) /\ req[r].operator_id = "S1"
        /\ req[r].resp.status = 200
        /\ Len(audit) = Len(req[r].pre.audit) + 1

\* the requests the specification answers 400
InvalidRequest(q) ==
    \/ q.task_id = Null
    \/ q.action = Null
    \/ q.action \notin TaskAction
    \/ q.action = "START_PACKING" /\ (q.payload.weight = Null \/ q.payload.dimensions = Null)
    \/ q.action = "ENTER_CORRECTION" /\ q.payload.errorType = Null
    \/ q.action = "REPORT_EXCEPTION" /\ q.payload.reason = Null
    \/ q.action = "RESUME_TASK" /\ q.operator_id = Null

\* C8: an invalid request is answered 400, and a request answered 400 has
\* made no store write: Tasks and Audit_Log are as they were when it arrived.
C8_InvalidRequestNoEffect ==
    \A r \in Slots :
        LET q == req[r] IN
        Answered(r) =>
            /\ InvalidRequest(q) <=> q.resp.status = 400
            /\ q.resp.status = 400 =>
                  /\ ~q.resp.success
                  /\ q.calls = <<>>
                  /\ tasks = q.pre.tasks
                  /\ audit = q.pre.audit

\* C8 witness: START_PACKING with a weight and no dimensions, answered 400
C8_Witness ==
    \E r \in Slots :
        /\ Answered(r) /\ req[r].action = "START_PACKING" /\ req[r].task_id = "t1"
        /\ req[r].payload.weight # Null /\ req[r].payload.dimensions = Null
        /\ req[r].resp.status = 400

\* C9: a successful REPORT_EXCEPTION with payload.reason = r leaves the task
\* in Pending with in_exception_pool = true and exception_reason = r (stated
\* for the requests none of whose store calls fails).
C9_ExceptionPool ==
    \A r \in Slots :
        LET q == req[r] IN
        (Answered(r) /\ q.action = "REPORT_EXCEPTION" /\ q.payload.reason # Null
            /\ q.resp.status = 200 /\ ~q.storeFail) =>
            /\ tasks[q.task_id].status = "Pending"
            /\ tasks[q.task_id].in_exception_pool = TRUE
            /\ tasks[q.task_id].exception_reason = q.payload.reason

\* C10: a successful PAUSE_TASK leaves is_paused = true and the status as it
\* was; a successful RESUME_TASK leaves is_paused = false and the status as
\* it was.
C10_PauseResumeKeepStatus ==
    \A r \in Slots :
        LET q == req[r] IN
        (Answered(r) /\ q.resp.status = 200) =>
            /\ q.action = "PAUSE_TASK" =>
                  /\ tasks[q.task_id].is_paused = TRUE
                  /\ tasks[q.task_id].status = q.pre.tasks[q.task_id].status
            /\ q.action = "RESUME_TASK" =>
                  /\ tasks[q.task_id].is_paused = FALSE
                  /\ tasks[q.task_id].status = q.pre.tasks[q.task_id].status

\* C10 witness: a task paused while Inspecting is resumed and is still Inspecting
C10_Witness ==
    \E r \in Slots :
        /\ Answered(r) /\ req[r].action = "RESUME_TASK" /\ NamesTask(req[r])
        /\ req[r].pre.tasks[req[r].task_id].is_paused
        /\ req[r].pre.tasks[req[r].task_id].status = "Inspecting"
        /\ req[r].resp.status = 200
        /\ ~tasks[req[r].task_id].is_paused


\* the actions that set the operator to the acting operator, by the specification
SetsOperator ==
    {"START_PICKING", "START_INSPECTION", "ENTER_CORRECTION", "START_CORRECTION",
     "CANCEL_TASK", "RESUME_TASK"}

\* C11: after a successful START_PICKING, START_INSPECTION, ENTER_CORRECTION,
\* START_CORRECTION, CANCEL_TASK or RESUME_TASK performed with an operator_id,
\* the task's current_operator equals that operator_id.
C11_OperatorAssigned ==
    \A r \in Slots :
        LET q == req[r] IN
        (Answered(r) /\ q.action \in SetsOperator /\ q.operator_id # Null
            /\ q.resp.status = 200) =>
            tasks[q.task_id].current_operator = q.operator_id

\* C11 witness: S1 resumes a paused task that had no operator
C11_Witness ==
    \E r \in Slots :
        /\ Answered(r) /\ req[r].action = "RESUME_TASK" /\ req[r].operator_id = "S1"
        /\ NamesTask(req[r])
        /\ req[r].pre.tasks[req[r].task_id].current_operator = ""
        /\ req[r].resp.status = 200
        /\ tasks[req[r].task_id].current_operator = "S1"


----------------------------------------------------------------------------
\* Error taxonomy

\* C12: a request of POST /api/tasks/action or PUT /api/tasks/:id/checklist
\* that passes validation and names a task with no record in Tasks is
\* answered 404 (stated for the requests no store call of which fails for
\* another reason than the missing record).
C12_AbsentTaskIs404 ==
    \A r \in Slots :
        LET q == req[r] IN
        (Finished(r) /\ q.kind \in {"action", "checklist"} /\ q.resp.status # 400
            /\ Truthy(q.task_id) /\ ~NamesTask(q) /\ ~q.storeFail) =>
            q.resp.status = 404


\* C13: when a store call fails during GET /api/tasks/:id, GET, PUT or DELETE
\* /api/staff/:id or POST /api/tasks/action, the request is answered 500.
C13_StoreFailureIs500 ==
    \A r \in Slots :
        LET q == req[r] IN
        (Finished(r) /\ q.storeFail
            /\ q.kind \in {"task_get", "staff_get", "staff_put", "staff_delete", "action"}) =>
            q.resp.status = 500


\* the messages of an error response that say nothing about the failure
GenericMessages == {Null, "Something went wrong", "Database error occurred"}

\* C14: a request answered 500 while the mode is not development carries no
\* message of the error that caused the 500.
C14_MessageOnlyInDevelopment ==
    \A r \in Slots :
        LET q == req[r] IN
        (Finished(r) /\ q.resp.status = 500 /\ nodeEnv # "development") =>
            q.message \in GenericMessages


----------------------------------------------------------------------------
\* Invariants of the tables

\* the eight statuses of the specification
EnumeratedStatuses ==
    {"Pending", "Picking", "Packed", "Inspecting", "Correction_Needed", "Correcting",
     "Completed", "Cancelled"}

\* C15: the status of every task is one of the eight enumerated values, and
\* every update the store has applied that wrote a status wrote one of them.
C15_StatusEnumerated ==
    /\ \A t \in DOMAIN tasks : tasks[t].status \in EnumeratedStatuses
    /\ \A i \in DOMAIN writes :
          "status" \in DOMAIN writes[i].fields =>
              writes[i].fields.status \in EnumeratedStatuses

\* C15 witness: an issue report has moved a Completed task back to Pending
C15_Witness ==
    \E r \in Slots :
        /\ Finished(r) /\ req[r].kind = "issue" /\ req[r].resp.status = 200
        /\ req[r].pre.tasks[req[r].task_id].status = "Completed"
        /\ tasks[req[r].task_id].status = "Pending"
        /\ Len(writes) > 0


\* C16: the audit log is append-only: every step leaves the records already
\* in Audit_Log in place and unchanged, and the only store write a request
\* ever attempts on Audit_Log is a create.
C16_AuditAppendOnly ==
    [][/\ Len(audit') >= Len(audit)
       /\ SubSeq(audit', 1, Len(audit)) = audit
       /\ \A r \in Slots : \A i \in DOMAIN req'[r].calls :
             req'[r].calls[i].op \in
                {"audit_create", "task_update", "staff_create", "staff_update",
                 "staff_destroy"}]_vars

\* C16 witness: a sync request has written two records, the first is kept
C16_Witness ==
    \E r \in Slots :
        /\ Finished(r) /\ req[r].kind = "sync" /\ req[r].syncedCount = 2
        /\ Len(audit) = Len(req[r].pre.audit) + 2
        /\ audit[Len(audit) - 1].action = "START_PICKING"
        /\ audit[Len(audit)].action = "TASK_PAUSED"


----------------------------------------------------------------------------
\* Audit sync and issue reports

\* the positions of logs that are not in errors, in increasing order
SyncedPositions(q) ==
    SelectSeq([i \in 1..Len(q.body.logs) |-> i],
              LAMBDA i : \A k \in DOMAIN q.errors : q.errors[k] # i)

\* an entry the specification declares invalid
InvalidEntry(log) ==
    \/ log.timestamp = Null \/ log.action_type = Null
    \/ log.staff_id = Null \/ log.task_id = Null

\* C17: a sync request with a logs array is answered 200 with
\* synced_count + length(errors) = total_logs; every entry is either one
\* element of errors (its position appears once, in order) or one new
\* Audit_Log record (the new records are the entries not in errors, in
\* order); an invalid entry is in errors, a valid entry is in errors only
\* when its audit write failed, and one audit write was attempted for every
\* valid entry, whatever happened to the entries before it.
C17_SyncPartialSuccess ==
    \A r \in Slots :
        LET q == req[r]
            logs == q.body.logs
            n == Len(q.pre.audit)
            synced == SyncedPositions(q)
            valid == SelectSeq([i \in 1..Len(logs) |-> i],
                               LAMBDA i : ~InvalidEntry(logs[i]))
        IN  (Finished(r) /\ q.kind = "sync" /\ q.body.isArray) =>
                /\ q.resp = [status |-> 200, success |-> (q.syncedCount > 0)]
                /\ q.syncedCount + Len(q.errors) = Len(logs)
                /\ \A k \in DOMAIN q.errors : q.errors[k] \in 1..Len(logs)
                /\ \A k \in 1..(Len(q.errors) - 1) : q.errors[k] < q.errors[k + 1]
                /\ Len(synced) = q.syncedCount
                /\ Len(audit) = n + q.syncedCount
                /\ SubSeq(audit, 1, n) = q.pre.audit
                /\ \A k \in DOMAIN synced :
                      /\ ~InvalidEntry(logs[synced[k]])
                      /\ audit[n + k].task_id = logs[synced[k]].task_id
                      /\ audit[n + k].action = logs[synced[k]].action_type
                /\ Len(q.calls) = Len(valid)
                /\ \A k \in DOMAIN valid :
                      /\ q.calls[k].op = "audit_create"
                      /\ q.calls[k].ok <=> (\E j \in DOMAIN synced : synced[j] = valid[k])

\* C17 witness: of two valid entries the first failed at the store and the
\* second was written
C17_Witness ==
    \E r \in Slots :
        /\ Finished(r) /\ req[r].kind = "sync" /\ Len(req[r].body.logs) = 2
        /\ req[r].errors = <<1>> /\ req[r].syncedCount = 1
        /\ req[r].calls = <<[op |-> "audit_create", ok |-> FALSE],
                            [op |-> "audit_create", ok |-> TRUE]>>
        /\ Len(audit) = Len(req[r].pre.audit) + 1


\* an issue report that lacks one of its four required fields
InvalidIssue(q) ==
    \/ q.task_id = Null \/ q.operator_id = Null
    \/ q.body.issue_type = Null \/ q.body.description = Null

\* the task of the issue report q is in the exception pool as reported
InExceptionPool(q) ==
    /\ tasks[q.task_id].status = "Pending"
    /\ tasks[q.task_id].in_exception_pool = TRUE
    /\ tasks[q.task_id].exception_reason = q.body.issue_type
    /\ tasks[q.task_id].exception_notes = q.body.description
    /\ tasks[q.task_id].current_operator = ""

\* Audit_Log is the log the request q found plus one record for q's task
OneNewAuditRecord(q) ==
    /\ Len(audit) = Len(q.pre.audit) + 1
    /\ SubSeq(audit, 1, Len(q.pre.audit)) = q.pre.audit
    /\ audit[Len(audit)].task_id = q.task_id

\* an invalid issue report is answered 400, and one answered 400 has changed
\* neither Tasks nor Audit_Log
IssueRejected(q) ==
    /\ InvalidIssue(q) <=> q.resp.status = 400
    /\ q.resp.status = 400 =>
          /\ q.calls = <<>>
          /\ tasks = q.pre.tasks
          /\ audit = q.pre.audit

\* C18 as stated: after a successful issue report the task is in the
\* exception pool as reported and one new audit record for it exists; a
\* report missing a required field is answered 400 with Tasks and Audit_Log
\* unchanged.
C18_Original ==
    \A r \in Slots :
        LET q == req[r] IN
        (Finished(r) /\ q.kind = "issue") =>
            /\ q.resp.status = 200 => (InExceptionPool(q) /\ OneNewAuditRecord(q))
            /\ IssueRejected(q)

\* C18 amended: the same, the new audit record existing when the audit write
\* of the request did not fail at the store (a failed audit write is
\* swallowed: the answer is still 200 and Audit_Log is unchanged).
C18_IssueReport ==
    \A r \in Slots :
        LET q == req[r] IN
        (Finished(r) /\ q.kind = "issue") =>
            /\ q.resp.status = 200 =>
                  /\ InExceptionPool(q)
                  /\ IF HasCall(q, "audit_create", FALSE)
                     THEN audit = q.pre.audit
                     ELSE OneNewAuditRecord(q)
            /\ IssueRejected(q)

\* C18 witness: S1 reports an issue on a task another request had assigned
C18_Witness ==
    \E r \in Slots :
        /\ Finished(r) /\ req[r].kind = "issue" /\ req[r].resp.status = 200
        /\ req[r].operator_id = "S1"
        /\ req[r].pre.tasks[req[r].task_id].status = "Inspecting"
        /\ req[r].pre.tasks[req[r].task_id].current_operator = "S1"
        /\ InExceptionPool(req[r])
        /\ OneNewAuditRecord(req[r])


----------------------------------------------------------------------------
\* Staff identity

\* the record ids and the staff_id values of the Staff table
StaffRecordIds == {staff[i].id : i \in DOMAIN staff}
StaffIdValues == {staff[i].staff_id : i \in DOMAIN staff}

\* C20: in every response, the id of every staff member returned (the data of
\* the staff routes, the currentOperator of a returned task) is the staff_id
\* value of a Staff record and not the record id of any: the list returns
\* each record's staff_id, the routes by id return the staff_id asked for, a
\* create returns the staff_id of the record it created.
C20_StaffIdNeverRecordId ==
    \A r \in Slots :
        LET q == req[r] IN
        Finished(r) =>
            /\ \A i \in DOMAIN q.data :
                  q.data[i].id \in StaffIdValues /\ q.data[i].id \notin StaffRecordIds
            /\ q.updatedTask.currentOperator # Null =>
                  /\ q.updatedTask.currentOperator \in StaffIdValues
                  /\ q.updatedTask.currentOperator \notin StaffRecordIds
                  /\ q.updatedTask.currentOperator = tasks[q.task_id].current_operator
            /\ (q.kind = "staff_list" /\ q.resp.status = 200) =>
                  /\ Len(q.data) = Len(staff)
                  /\ \A i \in DOMAIN staff : q.data[i].id = staff[i].staff_id
            /\ (q.kind \in {"staff_get", "checkin", "staff_put"} /\ q.resp.status = 200) =>
                  /\ Len(q.data) = 1
                  /\ q.data[1].id = q.staffId
            /\ (q.kind = "staff_post" /\ q.resp.status = 201) =>
                  /\ Len(q.data) = 1
                  /\ q.data[1].id = staff[Len(staff)].staff_id
                  /\ q.body.staff_id # Null => q.data[1].id = q.body.staff_id

\* C20 witness: a staff member created without staff_id is returned under the
\* generated staff_id, not under the id of the new record
C20_Witness ==
    \E r \in Slots :
        /\ Finished(r) /\ req[r].kind = "staff_post" /\ req[r].resp.status = 201
        /\ req[r].body.staff_id = Null
        /\ req[r].data = <<[id |-> "STAFF_BOB_0042", name |-> "Bob"]>>
        /\ staff[Len(staff)].id # "STAFF_BOB_0042"
        /\ staff[Len(staff)].staff_id = "STAFF_BOB_0042"


----------------------------------------------------------------------------
\* Concurrency

\* the updates applied to task t that wrote field f, as positions of writes
WritesOf(t, f) ==
    {i \in DOMAIN writes : writes[i].id = t /\ f \in DOMAIN writes[i].fields}

\* the greatest element of a non-empty set of positions
Last(S) == CHOOSE i \in S : \A j \in S : j <= i

\* C19: two concurrent requests on the same task are not coordinated and the
\* store is last-write-wins: a request in flight can always make its next
\* store call, whatever the state of the other; a request none of whose
\* store calls failed is answered 200 with its update applied; and every
\* field of the task holds the value of the last update applied by the
\* store among those that wrote the field (its initial value when none did).
C19_LastWriteWins ==
    /\ \A r \in ConcSlots :
          req[r].pc \notin {"idle", "done"} => ENABLED StoreCall(r)
    /\ \A r \in ConcSlots :
          (req[r].pc = "done" /\ ~req[r].storeFail) =>
              /\ req[r].resp = [status |-> 200, success |-> TRUE]
              /\ HasCall(req[r], "task_update", TRUE)
    /\ \A t \in DOMAIN tasks : \A f \in DOMAIN tasks[t] :
          IF WritesOf(t, f) = {}
          THEN tasks[t][f] = ConcInitialTasks[t][f]
          ELSE tasks[t][f] = writes[Last(WritesOf(t, f))].fields[f]

\* C19 witness: both requests arrived before either wrote; the request in
\* slot 2 wrote a status first, the request in slot 1 wrote another status
\* after it; both are answered 200 and the task has the status of slot 1
C19_Witness ==
    /\ \A r \in ConcSlots :
          /\ req[r].pc = "done" /\ req[r].resp.status = 200
          /\ req[r].pre.tasks = ConcInitialTasks
    /\ Len(writes) = 2
    /\ writes[1].slot = 2 /\ writes[2].slot = 1
    /\ "status" \in DOMAIN writes[1].fields /\ writes[1].fields.status = "Cancelled"
    /\ "status" \in DOMAIN writes[2].fields /\ writes[2].fields.status = "Inspecting"
    /\ \A t \in DOMAIN tasks : tasks[t].status = "Inspecting"


----------------------------------------------------------------------------
\* Audit vocabulary

\* the closed vocabulary of audit labels
AuditVocabulary ==
    {"Task_Started", "Packing_Started", "Inspection_Started", "Task_Completed",
     "Inspection_Failed", "Correction_Started", "Correction_Completed",
     "Exception_Logged", "Task_Paused", "Task_Resumed", "Task_Auto_Cancelled",
     "Other_Actions"}

\* C21: whatever the action-type string, the audit record logAction writes
\* has an action_type of the closed vocabulary (the generic label for an
\* unrecognized action type).
C21_LabelInVocabulary ==
    \A i \in DOMAIN audit : audit[i].action_type \in AuditVocabulary


----------------------------------------------------------------------------
\* Dashboard

\* the tasks the specification puts in the inspecting bucket
InspectingBucket ==
    {t \in DOMAIN tasks :
        /\ tasks[t].status \in {"Inspecting", "Correction_Needed", "Correcting"}
        /\ ~tasks[t].is_paused}

\* C22: the inspecting list of a dashboard response contains exactly the
\* non-paused tasks in status Inspecting, Correction_Needed or Correcting,
\* each once, and stats.inspecting is the length of the list.
C22_InspectingBucket ==
    \A r \in Slots :
        LET q == req[r]
            list == q.dashboard.tasks.inspecting
        IN  (Finished(r) /\ q.kind = "dashboard" /\ q.resp.status = 200) =>
                /\ {list[i].id : i \in DOMAIN list} = InspectingBucket
                /\ Len(list) = Cardinality(InspectingBucket)
                /\ q.dashboard.stats.inspecting = Len(list)

\* C22 witness: the bucket merges an Inspecting and a Correction_Needed task
\* and leaves out a paused Correcting task
C22_Witness ==
    \E r \in Slots :
        /\ Finished(r) /\ req[r].kind = "dashboard" /\ req[r].resp.status = 200
        /\ req[r].dashboard.stats.inspecting = 2
        /\ \E a, b, c \in DOMAIN tasks :
              /\ tasks[a].status = "Inspecting" /\ ~tasks[a].is_paused
              /\ tasks[b].status = "Correction_Needed" /\ ~tasks[b].is_paused
              /\ tasks[c].status = "Correcting" /\ tasks[c].is_paused


----------------------------------------------------------------------------
\* Field preservation

\* the fields no action of POST /api/tasks/action writes
PreservedByAction ==
    {"order_name", "shipping_name", "checklist_json", "in_exception_pool",
     "exception_reason", "exception_notes"}

\* C23: at every point of a POST /api/tasks/action request the order name,
\* shipping fields, checklist and exception-pool fields of every task are
\* those of the arrival of the request; at every point of a PUT checklist
\* request every field of every task but the checklist is that of the
\* arrival, and so is Audit_Log.
C23_UpdatePreservesFields ==
    \A r \in Slots :
        LET q == req[r] IN
        /\ q.kind = "action" =>
              \A t \in DOMAIN tasks : \A f \in PreservedByAction :
                  tasks[t][f] = q.pre.tasks[t][f]
        /\ q.kind = "checklist" =>
              /\ \A t \in DOMAIN tasks : \A f \in DOMAIN tasks[t] \ {"checklist_json"} :
                    tasks[t][f] = q.pre.tasks[t][f]
              /\ audit = q.pre.audit

\* C23 witness: an action with an operator has moved a pooled task with a
\* filled-in checklist to another status; the pool fields and the checklist
\* are those of before
C23_Witness ==
    \E r \in Slots : \E t \in DOMAIN tasks :
        /\ Answered(r) /\ req[r].resp.status = 200 /\ req[r].task_id = t
        /\ Len(writes) = 1 /\ "status" \in DOMAIN writes[1].fields
        /\ tasks[t].status = "Picking"
        /\ tasks[t].in_exception_pool /\ tasks[t].exception_reason = "damaged_item"
        /\ tasks[t].checklist_json = "[1]"
        /\ Len(audit) = 1


----------------------------------------------------------------------------
\* Staff check-in

\* the staff_id values of the Staff table
KnownStaffIds == {staff[i].staff_id : i \in DOMAIN staff}

\* C24: at every point of a POST /api/staff/checkin request the Tasks, Staff
\* and Audit_Log tables are those of its arrival and no store write has been
\* attempted; a check-in naming a staffId of no staff member is answered 404,
\* one of a known staff member with an action other than CHECK_IN or
\* CHECK_OUT is answered 400, and only a CHECK_IN or CHECK_OUT of a known
\* staff member is answered 200.
C24_CheckinPersistsNothing ==
    \A r \in Slots :
        LET q == req[r] IN
        /\ q.kind = "checkin" =>
              /\ tasks = q.pre.tasks /\ staff = q.pre.staff /\ audit = q.pre.audit
              /\ q.calls = <<>>
        /\ (Finished(r) /\ q.kind = "checkin" /\ Truthy(q.staffId) /\ Truthy(q.action)) =>
              /\ q.staffId \notin KnownStaffIds => q.resp.status = 404
              /\ (q.staffId \in KnownStaffIds /\ q.action \notin {"CHECK_IN", "CHECK_OUT"}
                      /\ ~q.storeFail) => q.resp.status = 400
              /\ q.action \notin {"CHECK_IN", "CHECK_OUT"} => q.resp.status \in {400, 404}
              /\ q.resp.status = 200 =>
                    q.staffId \in KnownStaffIds /\ q.action \in {"CHECK_IN", "CHECK_OUT"}

\* C24 witness: a check-in of a known staff member with an unknown action has
\* been answered 400 and the tables are those of the start
C24_Witness ==
    \E r \in Slots :
        /\ Finished(r) /\ req[r].kind = "checkin"
        /\ req[r].staffId \in KnownStaffIds /\ req[r].action = "BOGUS_ACTION"
        /\ ~req[r].storeFail
        /\ req[r].resp.status = 400
        /\ audit = <<>> /\ writes = <<>> /\ staff = InitialStaff


----------------------------------------------------------------------------
\* Unresolved operators

\* C25: a read of a task whose current_operator names no staff member
\* succeeds and returns the task without currentOperator, by GET
\* /api/tasks/:id when the store finds the record and in every list of a
\* dashboard response.
C25_UnresolvedOperatorIsAbsent ==
    \A r \in Slots :
        LET q == req[r] IN
        /\ (Finished(r) /\ q.kind = "task_get" /\ q.task_id \in DOMAIN tasks
                /\ ~q.storeFail
                /\ tasks[q.task_id].current_operator \notin KnownStaffIds) =>
                /\ q.resp.status = 200
                /\ q.updatedTask.id = q.task_id
                /\ q.updatedTask.currentOperator = Null
        /\ (Finished(r) /\ q.kind = "dashboard" /\ q.resp.status = 200) =>
                \A b \in Buckets : \A i \in DOMAIN q.dashboard.tasks[b] :
                    LET t == q.dashboard.tasks[b][i]
                    IN  tasks[t.id].current_operator \notin KnownStaffIds =>
                            t.currentOperator = Null

\* C25 witness: a task held by an operator without a Staff record has been
\* read, the answer is 200 and has no operator
C25_Witness ==
    \E r \in Slots :
        /\ Finished(r) /\ req[r].kind = "task_get" /\ req[r].task_id \in DOMAIN tasks
        /\ tasks[req[r].task_id].current_operator = "S9"
        /\ "S9" \notin KnownStaffIds
        /\ req[r].resp.status = 200
        /\ req[r].updatedTask.currentOperator = Null


----------------------------------------------------------------------------
\* Retries

\* the number of attempts of the store write op the request has made
Attempts(q, op) ==
    Cardinality({i \in DOMAIN q.calls : q.calls[i].op = op})

\* the number of audit records the handler of the request sets out to write:
\* one per logAction call
LogActionCalls(q) ==
    CASE q.kind = "sync" -> Len(q.body.logs)
      [] q.kind = "issue" -> 1
      [] q.kind = "action" -> IF q.action = "REPORT_EXCEPTION" THEN 2 ELSE 1
      [] OTHER -> 0

\* C26: a store write that failed is not issued again: the request goes on to
\* another store call, to the next entry of a sync, or to its response; a
\* request attempts the task update and each staff write at most once and an
\* audit create at most once per audit record it sets out to write; after a
\* failed task update the request makes no further call and is answered 500.
C26_NoRetry ==
    /\ [][\A r \in Slots :
            (/\ Len(req'[r].calls) = Len(req[r].calls) + 1
             /\ ~req'[r].calls[Len(req'[r].calls)].ok) =>
                (req'[r].pc # req[r].pc \/ req'[r].idx > req[r].idx)]_vars
    /\ [](\A r \in Slots :
            LET q == req[r] IN
            /\ \A op \in {"task_update", "staff_create", "staff_update", "staff_destroy"} :
                  Attempts(q, op) <= 1
            /\ Attempts(q, "audit_create") <= LogActionCalls(q)
            /\ \A i \in DOMAIN q.calls :
                  q.calls[i] = [op |-> "task_update", ok |-> FALSE] =>
                      i = Len(q.calls) /\ q.pc = "done" /\ q.resp.status = 500)

\* C26 witness: an action whose audit create succeeded and whose task update
\* failed has been answered 500 after these two calls
C26_Witness ==
    \E r \in Slots :
        /\ Answered(r) /\ req[r].resp.status = 500
        /\ req[r].calls = <<[op |-> "audit_create", ok |-> TRUE],
                            [op |-> "task_update", ok |-> FALSE]>>
        /\ Len(audit) = 1 /\ writes = <<>>


----------------------------------------------------------------------------
\* Pause flag

\* the status-changing actions
StatusChangingActions ==
    {"START_PICKING", "START_PACKING", "START_INSPECTION", "COMPLETE_INSPECTION",
     "ENTER_CORRECTION", "START_CORRECTION", "RESOLVE_CORRECTION", "LABEL_CREATED",
     "CANCEL_TASK", "REPORT_EXCEPTION"}

\* C27: at every point of a request for a status-changing action the task's
\* is_paused flag is the one it had when the request arrived, whatever the
\* status before and after; a PAUSE_TASK for an existing task is answered 200
\* and leaves the task paused in every status, when no store call fails.
C27_PauseOrthogonal ==
    \A r \in Slots :
        LET q == req[r] IN
        (q.kind = "action" /\ NamesTask(q)) =>
            /\ q.action \in StatusChangingActions =>
                  tasks[q.task_id].is_paused = q.pre.tasks[q.task_id].is_paused
            /\ (q.action = "PAUSE_TASK" /\ Finished(r) /\ ~q.storeFail) =>
                  /\ q.resp.status = 200
                  /\ tasks[q.task_id].is_paused
                  /\ tasks[q.task_id].status = q.pre.tasks[q.task_id].status

\* C27 witness: a paused task in Inspecting has been completed by
\* COMPLETE_INSPECTION and is still paused
C27_Witness ==
    \E r \in Slots :
        /\ Answered(r) /\ req[r].action = "COMPLETE_INSPECTION" /\ NamesTask(req[r])
        /\ req[r].pre.tasks[req[r].task_id].is_paused
        /\ req[r].pre.tasks[req[r].task_id].status = "Inspecting"
        /\ req[r].resp.status = 200
        /\ tasks[req[r].task_id].status = "Completed"
        /\ tasks[req[r].task_id].is_paused


----------------------------------------------------------------------------
\* Audit records of POST /api/tasks/action

\* the audit records written since the request arrived
NewRecords(q) == SubSeq(audit, Len(q.pre.audit) + 1, Len(audit))

\* C28: a POST /api/tasks/action request with an operator_id that is answered
\* 200, none of its store calls failing, has added exactly one record to
\* Audit_Log, whatever the action.
C28_OneAuditRecord ==
    \A r \in Slots :
        LET q == req[r] IN
        (Answered(r) /\ q.resp.status = 200 /\ Truthy(q.operator_id) /\ ~q.storeFail) =>
            Len(NewRecords(q)) = 1


\* the audit label of each action, by the action-type mapping
ActionLabel ==
    [START_PICKING |-> "Task_Started", START_PACKING |-> "Packing_Started",
     START_INSPECTION |-> "Inspection_Started", COMPLETE_INSPECTION |-> "Task_Completed",
     ENTER_CORRECTION |-> "Inspection_Failed", START_CORRECTION |-> "Correction_Started",
     RESOLVE_CORRECTION |-> "Correction_Completed", REPORT_EXCEPTION |-> "Exception_Logged",
     PAUSE_TASK |-> "Task_Paused", RESUME_TASK |-> "Task_Resumed",
     CANCEL_TASK |-> "Task_Auto_Cancelled", LABEL_CREATED |-> "Other_Actions"]

\* C29: every audit record written by a POST /api/tasks/action request for
\* action a carries the label the action-type mapping assigns to a, the
\* generic label for LABEL_CREATED only.
C29_RecordCarriesLabel ==
    \A r \in Slots :
        LET q == req[r] IN
        (q.kind = "action" /\ q.action \in DOMAIN ActionLabel) =>
            \A i \in DOMAIN NewRecords(q) :
                NewRecords(q)[i].action_type = ActionLabel[q.action]


\* C30: every audit record written by a successful request for a
\* status-changing action, none of its store calls failing, has old_value =
\* the status of the task before the action's task update and new_value = the
\* status after it.
C30_OldAndNewValue ==
    \A r \in Slots :
        LET q == req[r] IN
        (Answered(r) /\ q.action \in StatusChangingActions /\ NamesTask(q)
            /\ q.resp.status = 200 /\ ~q.storeFail) =>
            \A i \in DOMAIN NewRecords(q) :
                /\ NewRecords(q)[i].old_value = q.pre.tasks[q.task_id].status
                /\ NewRecords(q)[i].new_value = tasks[q.task_id].status


----------------------------------------------------------------------------
\* Audit trail under concurrency

\* the status the update at position i of writes overwrote: the one written by
\* the last status update applied before it, the initial one when there is none
Overwritten(i) ==
    LET before == {j \in WritesOf(writes[i].id, "status") : j < i}
    IN  IF before = {}
        THEN ConcInitialTasks[writes[i].id].status
        ELSE writes[Last(before)].fields.status

\* C31: for two concurrent requests on the same task, every audit record of a
\* status-changing action has as old_value the status that the task update of
\* its request overwrote.
C31_AuditFollowsHistory ==
    \A r \in ConcSlots : \A i \in DOMAIN writes :
        (/\ writes[i].slot = r
         /\ req[r].action \in StatusChangingActions
         /\ "status" \in DOMAIN writes[i].fields) =>
            \A j \in DOMAIN req[r].logged :
                req[r].logged[j].record.old_value = Overwritten(i)


----------------------------------------------------------------------------
\* Dashboard partition

\* the number of times task t is listed in a dashboard response
Listings(q, t) ==
    Cardinality({<<b, i>> \in Buckets \X (1..Cardinality(DOMAIN tasks)) :
                    /\ i \in DOMAIN q.dashboard.tasks[b]
                    /\ q.dashboard.tasks[b][i].id = t})

\* C32: in a dashboard response every task of the store is in exactly one of
\* the seven lists, and stats.total is the number of tasks of the store.
C32_BucketsPartition ==
    \A r \in Slots :
        LET q == req[r] IN
        (Finished(r) /\ q.kind = "dashboard" /\ q.resp.status = 200) =>
            /\ \A t \in DOMAIN tasks : Listings(q, t) = 1
            /\ q.dashboard.stats.total = Cardinality(DOMAIN tasks)


----------------------------------------------------------------------------
\* Audit records and absent tasks

\* C33: a POST /api/tasks/action request naming a task id with no record in
\* Tasks adds nothing to Audit_Log, whatever the action.
C33_NoAuditForAbsentTask ==
    \A r \in Slots :
        LET q == req[r] IN
        (q.kind = "action" /\ Truthy(q.task_id) /\ ~NamesTask(q)) =>
            audit = q.pre.audit


----------------------------------------------------------------------------
\* Actions without an operator

\* the actions that pass the request's operator_id to updateTaskStatus
StatusDrivenActions ==
    {"START_PICKING", "START_INSPECTION", "ENTER_CORRECTION", "START_CORRECTION",
     "CANCEL_TASK"}

\* C34: a status-driven action posted without operator_id for an existing task
\* writes no audit record; when no store call fails it is answered 200, the
\* task has the status of the transition table and an empty current_operator.
C34_AppliedWithoutOperator ==
    \A r \in Slots :
        LET q == req[r] IN
        (q.kind = "action" /\ q.action \in StatusDrivenActions /\ q.operator_id = Null
            /\ NamesTask(q) /\ TablePrecondition(q)) =>
            /\ audit = q.pre.audit
            /\ ~HasCall(q, "audit_create", TRUE) /\ ~HasCall(q, "audit_create", FALSE)
            /\ (Finished(r) /\ ~q.storeFail) =>
                  /\ q.resp.status = 200
                  /\ tasks[q.task_id].status = TableStatus[q.action]
                  /\ tasks[q.task_id].current_operator = ""

\* C34 witness: CANCEL_TASK without operator_id on a task held by S1 has been
\* answered 200; the task is Cancelled, has no operator, and Audit_Log is empty
C34_Witness ==
    \E r \in Slots :
        /\ Answered(r) /\ req[r].action = "CANCEL_TASK" /\ req[r].operator_id = Null
        /\ NamesTask(req[r])
        /\ req[r].pre.tasks[req[r].task_id].current_operator = "S1"
        /\ req[r].pre.tasks[req[r].task_id].status = "Inspecting"
        /\ req[r].resp.status = 200
        /\ tasks[req[r].task_id].status = "Cancelled"
        /\ tasks[req[r].task_id].current_operator = ""
        /\ audit = <<>>


----------------------------------------------------------------------------
\* Staff identifiers

\* the request in slot r is an answered DELETE /api/staff/x that succeeded
Deleted(r, x) ==
    /\ req[r].pc = "done" /\ req[r].kind = "staff_delete"
    /\ req[r].staffId = x /\ req[r].resp.status = 200

\* no request from slot d to slot g creates a staff member
NoneCreatedBetween(d, g) ==
    \A k \in StaffSlots : (d < k /\ k < g) => req[k].kind # "staff_post"

\* C35: in a sequence of staff requests, after a successful DELETE
\* /api/staff/x and no POST /api/staff since, GET /api/staff/x is answered
\* 404 and GET /api/staff lists no member with id x, whatever was created
\* before the DELETE.
C35_DeletedIdIsGone ==
    \A d, g \in StaffSlots : \A x \in SeqStaffIds :
        (d < g /\ Deleted(d, x) /\ NoneCreatedBetween(d, g) /\ req[g].pc = "done") =>
            /\ (req[g].kind = "staff_get" /\ req[g].staffId = x) =>
                  req[g].resp.status = 404
            /\ (req[g].kind = "staff_list" /\ req[g].resp.status = 200) =>
                  \A i \in DOMAIN req[g].data : req[g].data[i].id # x


----------------------------------------------------------------------------
\* Exception pool

\* C36: a task that was in the exception pool when a request arrived is in
\* the exception pool, with a non-empty exception_reason, at every point of
\* that request and after it, whatever the request: the flag, once true,
\* stays true.
C36_PoolIsPermanent ==
    \A r \in Slots :
        LET q == req[r] IN
        q.pc # "idle" =>
            \A t \in DOMAIN q.pre.tasks :
                q.pre.tasks[t].in_exception_pool =>
                    /\ tasks[t].in_exception_pool
                    /\ tasks[t].exception_reason # ""

\* C36 witness: a paused task of the exception pool has been resumed and is
\* still in the pool with its reason
C36_Witness ==
    \E r \in Slots :
        /\ Answered(r) /\ req[r].action = "RESUME_TASK" /\ NamesTask(req[r])
        /\ req[r].pre.tasks[req[r].task_id].in_exception_pool
        /\ req[r].pre.tasks[req[r].task_id].is_paused
        /\ req[r].resp.status = 200
        /\ ~tasks[req[r].task_id].is_paused
        /\ tasks[req[r].task_id].in_exception_pool
        /\ tasks[req[r].task_id].exception_reason = "damaged_item"


----------------------------------------------------------------------------
\* Staff reference of an audit record

\* C37: an audit record created by logAction for an operator id that is
\* 'unknown', empty or without a Staff record has no staff reference; the
\* staff reference of a created record is the record id of a Staff record
\* whose staff_id is the operator id; and a status-driven action with such an
\* operator id, answered 200 with no audit create failing, has created
\* exactly one audit record.
C37_StaffReference ==
    \A r \in Slots :
        LET q == req[r] IN
        /\ \A j \in DOMAIN q.logged :
              LET e == q.logged[j] IN
              /\ (e.operatorId \in {"unknown", ""} \/ e.operatorId \notin KnownStaffIds) =>
                    e.record.staff_id = Null
              /\ e.record.staff_id # Null =>
                    \E i \in DOMAIN staff :
                        /\ staff[i].id = e.record.staff_id
                        /\ staff[i].staff_id = e.operatorId
        /\ (Finished(r) /\ q.kind = "action" /\ q.action \in StatusDrivenActions
                /\ Truthy(q.operator_id) /\ q.operator_id \notin KnownStaffIds
                /\ q.resp.status = 200 /\ ~HasCall(q, "audit_create", FALSE)) =>
              Len(q.logged) = 1

\* C37 witness: START_PICKING by S9, an operator without a Staff record, has
\* been answered 200 and has created one audit record without staff reference
C37_Witness ==
    \E r \in Slots :
        /\ Answered(r) /\ req[r].action = "START_PICKING" /\ req[r].operator_id = "S9"
        /\ "S9" \notin KnownStaffIds
        /\ req[r].resp.status = 200
        /\ Len(req[r].logged) = 1
        /\ req[r].logged[1].operatorId = "S9"
        /\ req[r].logged[1].record.staff_id = Null
        /\ Len(audit) = 1 /\ audit[1].staff_id = Null


----------------------------------------------------------------------------
\* Success flag of the audit sync

\* C38: a sync request whose logs field is an array is answered 200 with
\* success = true exactly when it has added a record to Audit_Log (so with
\* success = false for an empty array and when every entry is invalid or
\* fails); one whose logs field is missing or not an array is answered 400
\* and adds nothing.
C38_SyncSuccessFlag ==
    \A r \in Slots :
        LET q == req[r] IN
        (Finished(r) /\ q.kind = "sync") =>
            IF q.body.isArray
            THEN /\ q.resp.status = 200
                 /\ q.resp.success <=> Len(audit) > Len(q.pre.audit)
                 /\ q.body.logs = <<>> => ~q.resp.success
            ELSE /\ q.resp = [status |-> 400, success |-> FALSE]
                 /\ audit = q.pre.audit

\* C38 witness: a sync of two entries, the first invalid, the audit write of
\* the second failed, has been answered 200 with success = false
C38_Witness ==
    \E r \in Slots :
        /\ Finished(r) /\ req[r].kind = "sync" /\ req[r].body.isArray
        /\ Len(req[r].body.logs) = 2
        /\ req[r].errors = <<1, 2>>
        /\ req[r].calls = <<[op |-> "audit_create", ok |-> FALSE]>>
        /\ req[r].resp = [status |-> 200, success |-> FALSE]
        /\ audit = <<>>


----------------------------------------------------------------------------
\* Termination of POST /api/tasks/action

\* C39: a POST /api/tasks/action request has sent no response while it is in
\* flight and one response when it is finished, never two; and, every store
\* call eventually returning or failing, a request in flight is eventually
\* finished.
C39_ExactlyOneResponse ==
    /\ [](\A r \in Slots :
            req[r].kind = "action" =>
                req[r].sent = (IF req[r].pc = "done" THEN 1 ELSE 0))
    /\ \A r \in Slots :
          (req[r].kind = "action" /\ req[r].pc # "done")
              ~> (req[r].pc = "done" /\ req[r].sent = 1)

\* C39 witness: a request whose route-level read and audit create failed and
\* whose task update failed has been answered, once, with 500
C39_Witness ==
    \E r \in Slots :
        /\ Answered(r) /\ req[r].action = "COMPLETE_INSPECTION"
        /\ req[r].storeFail
        /\ HasCall(req[r], "task_update", FALSE)
        /\ req[r].resp.status = 500
        /\ req[r].sent = 1

====
